---- MODULE Spec2Model ----
(***************************************************************************)
(* ClawBox: a password-protected secret vault (clawbox-core).              *)
(*                                                                         *)
(* State: the SQLite tables vault_meta, secrets and audit_log, the key     *)
(* held by the ClawBox object, and the wall clock.  Cryptography is        *)
(* symbolic: a derived key is the term (password, salt), a ciphertext is   *)
(* the term (plaintext, key, nonce), and decryption succeeds only under    *)
(* the key and nonce the ciphertext was made with.                         *)
(***************************************************************************)
EXTENDS Integers, Sequences, FiniteSets, TLC

\* ---------------------------------------------------------------- bounds
MaxPassword == 2
MaxSalt == 1
MaxNonce == 1
MaxPath == 2
MaxValue == 2
MaxClock == 1
MaxSubsec == 1
MaxLog == 3
MaxContent == 2
MaxSyncKey == 2
MaxVersion == 3

Passwords == 1..MaxPassword
Salts == 1..MaxSalt
Nonces == 1..MaxNonce
Values == 1..MaxValue

\* ------------------------------------------------------- program constants
NONCE_LEN == 12
\* b"clawbox-verification-token"; secret values are 1..MaxValue
VerificationToken == 0
\* '*' and '%' in SqliteStore::list, and '_', the other wildcard of LIKE
Star == 42
Percent == 37
Underscore == 95

\* Option<T>: <<>> is None, <<x>> is Some(x)
None == <<>>
Some(x) == <<x>>

\* a path is a string, a sequence of character codes: a namespace character
\* ('a' or 'b') followed by a lower-case letter of its own
PathStr(i) == <<97 + (i % 2), 98 + i>>
Paths == {PathStr(i) : i \in 1..MaxPath}
\* list patterns: every secret, one namespace ("a*"), the namespace in upper
\* case ("A*"), the namespace and an underscore ("a_"), or one exact path
Patterns ==
    {None} \cup {Some(p) : p \in Paths}
        \cup {Some(<<c, Star>>) : c \in 97..98}
        \cup {Some(<<c - 32, Star>>) : c \in 97..98}
        \cup {Some(<<c, Underscore>>) : c \in 97..98}

\* SetOptions { access, ttl, tags, note } with AccessLevel as i32 (Public 0,
\* Normal 1, Sensitive 2, Critical 3): Default::default() (Normal, no tags, no
\* note) and one caller-chosen record
DefaultOptions == [access |-> 1, tags |-> <<>>, note |-> None]
CustomOptions == [access |-> 2, tags |-> <<"t">>, note |-> Some("n")]
SetOptions == {DefaultOptions, CustomOptions}

\* the two appenders that may be inside AuditLogger::log at once
Appenders == {"a", "b"}

\* the devices that share one iCloud container
Devices == {"a", "b"}

\* KEY_LEN of crypto.rs
KEY_LEN == 32

\* columns of the audit_log table created by init_schema
AuditLogColumns ==
    {"id", "timestamp", "actor", "action", "key_path", "success",
     "error_message", "source", "prev_hash", "metadata"}

\* an audit_log table that the file held before open(): CREATE TABLE IF NOT
\* EXISTS keeps it; this one has the columns AuditLogger reads and writes
ExistingAuditLogColumns == AuditLogColumns \cup {"hash"}

VARIABLES
    vault_meta,   \* table vault_meta: key -> value
    secrets,      \* table secrets: set of rows
    audit_log,    \* table audit_log: rows in insertion order
    key,          \* ClawBox.key: Option<DerivedKey>
    clock,        \* chrono::Utc::now(), unix seconds
    result,       \* the last call and what it returned
    h_password,   \* history: password of the last successful init
    h_written,    \* history: per path, the value of the last set since init
    h_cycle,      \* history: "fresh" after init, set or delete, "locked" after
                  \* a lock since, "cycled" after a successful unlock since
    audit_schema, \* the columns of table audit_log in the database file
    subsec,       \* chrono::Utc::now(), the part below one second
    pending,      \* per appender inside AuditLogger::log: the entry and the
                  \* hash it read, between get_last_hash and the INSERT
    h_edit,       \* history: the change made to audit_log out of band, if any
    residue,      \* the key bytes left in memory that its owner has released
    local,        \* per device, the files of local_vault_path: vault.db,
                  \* vault.db.backup and sync.meta
    remote,       \* the iCloud container: vault.encrypted and vault.meta
    encryption_key, \* per device, ICloudSync.encryption_key: Option<Vec<u8>>
    icloud_path,  \* per device, whether ICloudSync.icloud_path is Some
    h_sync,       \* history: per device "edited" after a set or delete,
                  \* "synced" after a sync() that returned Ok since,
                  \* "clean" before any of them
    caller        \* the locals of a direct caller of the crypto module: two
                  \* keys and the last EncryptedData it got from encrypt

vars == <<vault_meta, secrets, audit_log, key, clock, result, h_password, h_written, h_cycle,
          audit_schema, subsec, pending, h_edit,
          residue, local, remote, encryption_key, icloud_path, h_sync, caller>>
history == <<h_password, h_written, h_cycle>>
ledger_env == <<audit_schema, subsec, pending, h_edit>>
sync_env == <<local, remote, encryption_key, icloud_path, h_sync>>

\* ------------------------------------------------------------------ crypto
\* mutant: a key that depends on the salt alone
derive_key_of_salt(password, salt) == [password |-> 0, salt |-> salt]

\* Argon2id is deterministic in (password, salt)
derive_key(password, salt) == [password |-> password, salt |-> salt]

\* mutant: a DerivedKey without #[zeroize(drop)]
drop_DerivedKey_plain(k) == {<<"DerivedKey", k>>}

\* the key bytes that dropping a DerivedKey leaves in memory: none, since
\* #[zeroize(drop)] overwrites them first
drop_DerivedKey(k) == {}

\* the key bytes that dropping a Vec<u8> leaves in memory: all of them
drop_Vec(bytes) == IF bytes = <<>> THEN {} ELSE {<<"Vec", bytes>>}

\* mutant: the EncryptedData carries a zero nonce, not the one used
encrypt_zero_nonce(plaintext, k, nonce) ==
    [nonce |-> 0,
     ciphertext |-> [plaintext |-> plaintext, key |-> k, nonce |-> nonce]]

\* AES-256-GCM under a nonce drawn by the caller from the random source
encrypt(plaintext, k, nonce) ==
    [nonce |-> nonce,
     ciphertext |-> [plaintext |-> plaintext, key |-> k, nonce |-> nonce]]

\* mutant: decryption that does not authenticate the key
decrypt_unauthenticated(encrypted, k) ==
    [ok |-> TRUE, plaintext |-> Some(encrypted.ciphertext.plaintext)]

\* mutant: decryption that authenticates the salt of the key alone
decrypt_salt_only(encrypted, k) ==
    IF encrypted.ciphertext.key.salt = k.salt /\ encrypted.ciphertext.nonce = encrypted.nonce
    THEN [ok |-> TRUE, plaintext |-> Some(encrypted.ciphertext.plaintext)]
    ELSE [ok |-> FALSE, plaintext |-> None]

\* Ok(plaintext) only under the key and nonce of the encryption
decrypt(encrypted, k) ==
    IF encrypted.ciphertext.key = k /\ encrypted.ciphertext.nonce = encrypted.nonce
    THEN [ok |-> TRUE, plaintext |-> Some(encrypted.ciphertext.plaintext)]
    ELSE [ok |-> FALSE, plaintext |-> None]

\* number of bytes of a plaintext: the token or a value v of v bytes
ByteLen(plaintext) == plaintext

\* mutant: the ciphertext stored without the nonce in front of it
Blob_without_nonce(encrypted) ==
    [len |-> ByteLen(encrypted.ciphertext.plaintext),
     nonce |-> 0,
     ciphertext |-> encrypted.ciphertext]

\* nonce ++ ciphertext as stored in secrets.encrypted_value
Blob(encrypted) ==
    [len |-> NONCE_LEN + ByteLen(encrypted.ciphertext.plaintext),
     nonce |-> encrypted.nonce,
     ciphertext |-> encrypted.ciphertext]

\* ----------------------------------------------------------------- storage
get_meta(meta, k) == IF k \in DOMAIN meta THEN Some(meta[k]) ELSE None

\* mutant: INSERT OR IGNORE INTO vault_meta
set_meta_ignore(meta, k, v) ==
    IF k \in DOMAIN meta THEN meta
    ELSE [x \in DOMAIN meta \cup {k} |-> IF x = k THEN v ELSE meta[x]]

\* INSERT OR REPLACE INTO vault_meta
set_meta(meta, k, v) == [x \in DOMAIN meta \cup {k} |-> IF x = k THEN v ELSE meta[x]]

\* SELECT encrypted_value FROM secrets WHERE path = ?
store_get(rows, path) ==
    IF \E r \in rows : r.path = path
    THEN Some((CHOOSE r \in rows : r.path = path).encrypted_value)
    ELSE None

\* mutant: INSERT OR REPLACE INTO secrets, which replaces the whole row
store_set_replace(rows, path, value, info, now) ==
    {r \in rows : r.path /= path}
        \cup {[path |-> path, encrypted_value |-> value,
                access_level |-> info.access, tags |-> info.tags,
                note |-> info.note, created_at |-> now, updated_at |-> now,
                created_by |-> "human"]}

\* INSERT INTO secrets ... ON CONFLICT(path) DO UPDATE SET ...
store_set(rows, path, value, info, now) ==
    IF \E r \in rows : r.path = path
    THEN {IF r.path = path
          THEN [r EXCEPT !.encrypted_value = value,
                         !.access_level = info.access,
                         !.tags = info.tags,
                         !.note = info.note,
                         !.updated_at = now]
          ELSE r : r \in rows}
    ELSE rows \cup {[path |-> path, encrypted_value |-> value,
                     access_level |-> info.access, tags |-> info.tags,
                     note |-> info.note, created_at |-> now, updated_at |-> now,
                     created_by |-> "human"]}

\* mutant: Ok(affected >= 0)
store_delete_always_true(rows, path) ==
    [rows |-> {r \in rows : r.path /= path}, deleted |-> TRUE]

\* DELETE FROM secrets WHERE path = ?
store_delete(rows, path) ==
    [rows |-> {r \in rows : r.path /= path},
     deleted |-> \E r \in rows : r.path = path]

\* the case folding of LIKE: ASCII upper-case letters compare as lower case
AsciiLower(c) == IF c \in 65..90 THEN c + 32 ELSE c

\* SQL LIKE without ESCAPE: % matches any run of characters, _ any one
\* character, and any other character itself, ASCII letters in either case
RECURSIVE LikeMatch(_, _)
LikeMatch(pat, s) ==
    IF pat = <<>> THEN s = <<>>
    ELSE IF Head(pat) = Percent
         THEN LikeMatch(Tail(pat), s) \/ (s /= <<>> /\ LikeMatch(pat, Tail(s)))
         ELSE IF Head(pat) = Underscore
         THEN s /= <<>> /\ LikeMatch(Tail(pat), Tail(s))
         ELSE /\ s /= <<>>
              /\ AsciiLower(Head(s)) = AsciiLower(Head(pat))
              /\ LikeMatch(Tail(pat), Tail(s))

\* p.replace('*', "%")
ReplaceStar(p) == [i \in 1..Len(p) |-> IF p[i] = Star THEN Percent ELSE p[i]]

SecretInfoOf(r) ==
    [path |-> r.path, access |-> r.access_level, tags |-> r.tags, note |-> r.note,
     created_at |-> r.created_at, updated_at |-> r.updated_at]

store_list(rows, pattern) ==
    IF pattern = None
    THEN {SecretInfoOf(r) : r \in rows}
    ELSE {SecretInfoOf(r) : r \in {x \in rows : LikeMatch(ReplaceStar(pattern[1]), x.path)}}

\* ------------------------------------------------------------------- audit
\* DateTime<Utc>: whole seconds and the part below one second
DateTime(secs, nanos) == [secs |-> secs, nanos |-> nanos]

\* DateTime::timestamp: unix seconds, the column audit_log.timestamp
timestamp(dt) == dt.secs

\* DateTime::to_rfc3339: the text shows the part below one second
to_rfc3339(dt) == <<dt.secs, dt.nanos>>

\* DateTime::from_timestamp(ts, 0)
from_timestamp(ts) == DateTime(ts, 0)

\* Action::from_str(..).unwrap_or(Action::Read)
ActionOf(action_str) ==
    IF action_str \in {"read", "write", "delete", "export", "unlock", "lock", "init"}
    THEN action_str
    ELSE "read"

\* mutant: the digest leaves out the success flag
compute_hash_without_success(entry, prev_hash) ==
    [id |-> entry.id, timestamp |-> to_rfc3339(entry.timestamp),
     actor_type |-> entry.actor.actor_type,
     action |-> entry.action, key_path |-> entry.key_path,
     success |-> TRUE, prev |-> prev_hash]

\* SHA-256 over the hashed fields, as a term
compute_hash(entry, prev_hash) ==
    [id |-> entry.id, timestamp |-> to_rfc3339(entry.timestamp),
     actor_type |-> entry.actor.actor_type,
     action |-> entry.action, key_path |-> entry.key_path,
     success |-> entry.success, prev |-> prev_hash]

\* an AuditEntry as a caller of AuditLogger::log builds it
NewEntry(id, dt, action, key_path, success, error) ==
    [id |-> id, timestamp |-> dt,
     actor |-> [actor_type |-> "human", identifier |-> "user"], action |-> action,
     key_path |-> key_path, success |-> success, error_message |-> error,
     source |-> "cli", hash |-> None, prev_hash |-> None]

\* AuditEntry::new(..).with_actor(ActorInfo::human()) with the optional error;
\* the id is a fresh uuid
AuditEntry(action, key_path, success, error, now, log) ==
    NewEntry(Len(log) + 1, DateTime(now, subsec), action, key_path, success, error)

\* SELECT hash FROM audit_log ORDER BY timestamp DESC LIMIT 1; among rows of
\* one timestamp the index is walked from the newest row
get_last_hash(log) ==
    IF "hash" \notin audit_schema THEN [ok |-> FALSE, hash |-> None]
    ELSE IF log = <<>> THEN [ok |-> TRUE, hash |-> None]
    ELSE LET newest == CHOOSE i \in 1..Len(log) :
                           \A j \in 1..Len(log) :
                               \/ log[j].timestamp < log[i].timestamp
                               \/ (log[j].timestamp = log[i].timestamp /\ j <= i)
         IN [ok |-> TRUE, hash |-> log[newest].hash]

\* mutant: the row is written before the statement fails on the id
insert_then_fail(rows, entry, prev_hash) ==
    [ok |-> /\ {"hash", "prev_hash"} \subseteq audit_schema
            /\ \A i \in 1..Len(rows) : rows[i].id /= entry.id,
     rows |-> Append(rows, [entry EXCEPT !.timestamp = timestamp(entry.timestamp)])]

\* INSERT INTO audit_log (.., hash, prev_hash) VALUES (..): one statement,
\* which fails on a missing column or on an id already in the table
insert(rows, entry, prev_hash) ==
    IF ~({"id", "timestamp", "actor", "action", "key_path", "success",
          "error_message", "source", "hash", "prev_hash"} \subseteq audit_schema)
    THEN [ok |-> FALSE, rows |-> rows]
    ELSE IF \E i \in 1..Len(rows) : rows[i].id = entry.id
         THEN [ok |-> FALSE, rows |-> rows]
         ELSE [ok |-> TRUE,
               rows |-> Append(rows, [entry EXCEPT
                            !.timestamp = timestamp(entry.timestamp),
                            !.prev_hash = prev_hash,
                            !.hash = Some(compute_hash(entry, prev_hash))])]

\* AuditLogger::log: the rows after the call and whether it succeeded
log(rows, entry) ==
    LET last == get_last_hash(rows) IN
    IF ~last.ok THEN [ok |-> FALSE, rows |-> rows]
    ELSE insert(rows, entry, last.hash)

\* ClawBox::log_audit: let _ = logger.log(entry)
log_audit(rows, action, key_path, success, error, now) ==
    log(rows, AuditEntry(action, key_path, success, error, now, rows)).rows

\* AuditLogger::query(&AuditFilter::default()): every row, newest timestamp
\* first, read back into entries
query(rows) ==
    IF "hash" \notin audit_schema THEN [ok |-> FALSE, entries |-> <<>>]
    ELSE LET Before(i, j) == \/ rows[i].timestamp > rows[j].timestamp
                             \/ (rows[i].timestamp = rows[j].timestamp /\ i > j)
             Rank(i) == 1 + Cardinality({j \in 1..Len(rows) : Before(j, i)})
             At(n) == CHOOSE i \in 1..Len(rows) : Rank(i) = n
         IN [ok |-> TRUE,
             entries |-> [n \in 1..Len(rows) |->
                            [rows[At(n)] EXCEPT
                                !.timestamp = from_timestamp(rows[At(n)].timestamp),
                                !.action = ActionOf(rows[At(n)].action)]]]

\* mutant: each entry is checked against its own prev_hash column
RECURSIVE VerifyFrom_own_prev(_, _, _)
VerifyFrom_own_prev(entries, n, prev_hash) ==
    IF n > Len(entries) THEN TRUE
    ELSE IF entries[n].hash /= Some(compute_hash(entries[n], entries[n].prev_hash))
         THEN FALSE
         ELSE VerifyFrom_own_prev(entries, n + 1, entries[n].hash)

\* the loop of verify_integrity over the entries, oldest first
RECURSIVE VerifyFrom(_, _, _)
VerifyFrom(entries, n, prev_hash) ==
    IF n > Len(entries) THEN TRUE
    ELSE IF entries[n].hash /= Some(compute_hash(entries[n], prev_hash)) THEN FALSE
    ELSE VerifyFrom(entries, n + 1, entries[n].hash)

\* AuditLogger::verify_integrity
verify_integrity(rows) ==
    LET q == query(rows)
        entries == [n \in 1..Len(q.entries) |-> q.entries[Len(q.entries) + 1 - n]]
    IN IF ~q.ok THEN [ok |-> FALSE, val |-> None]
       ELSE [ok |-> TRUE, val |-> Some(VerifyFrom(entries, 1, None))]

\* ------------------------------------------------------------------- vault
\* the last call: the operation, the variant of its Result and the value
\* returned, kept with the operation's name in front of it
Result(op, ret, val) == [op |-> op, ret |-> ret, val |-> <<op>> \o val]

\* the Option returned by the call recorded in r
Val(r) == Tail(r.val)

NoWrites == [p \in Paths |-> None]

\* the files of a local vault directory after ClawBox::open: vault.db holding
\* the empty vault, no backup and no sync.meta
OpenedDir == [vault_db |-> Some(1), backup |-> None, sync_meta |-> None]

\* an empty iCloud container
EmptyContainer == [vault_file |-> None, meta_file |-> None]

\* no sync manager in the process
NoSync ==
    /\ local = [d \in Devices |-> OpenedDir]
    /\ remote = EmptyContainer
    /\ encryption_key = [d \in Devices |-> None]
    /\ icloud_path = [d \in Devices |-> FALSE]
    /\ h_sync = [d \in Devices |-> "clean"]

\* a caller of the crypto module that holds nothing yet
NoCaller == [key1 |-> None, key2 |-> None, encrypted |-> None]

\* ClawBox::open on a fresh directory: empty tables, no key
Init ==
    /\ vault_meta = <<>>
    /\ secrets = {}
    /\ audit_log = <<>>
    /\ key = None
    /\ clock = 0
    /\ result = Result("open", "Ok", None)
    /\ h_password = None
    /\ h_written = NoWrites
    /\ h_cycle = "fresh"
    /\ audit_schema = AuditLogColumns
    /\ subsec = 0
    /\ pending = [a \in Appenders |-> None]
    /\ h_edit = None
    /\ residue = {}
    /\ NoSync
    /\ caller = NoCaller

\* ClawBox::is_initialized
is_initialized == get_meta(vault_meta, "salt") /= None

\* ClawBox::is_unlocked
is_unlocked == key /= None

\* the key bytes left in memory when an Option<DerivedKey> is dropped
Release(k) == IF k = None THEN {} ELSE drop_DerivedKey(k[1])

\* mutant: init that derives the key and drops it
init_stays_locked(password, salt, nonce, fail) ==
    LET k == derive_key(password, salt)
        encrypted == encrypt(VerificationToken, k, nonce)
        m1 == set_meta(vault_meta, "salt", salt)
        m2 == set_meta(m1, "verification_nonce", encrypted.nonce)
        m3 == set_meta(m2, "verification_data", encrypted.ciphertext)
    IN
    /\ IF fail = "salt"
       THEN /\ result' = Result("init", "Database", None)
            /\ UNCHANGED <<vault_meta, key, audit_log, history, residue>>
       ELSE IF fail \in {"verification_nonce", "verification_data"}
       THEN /\ vault_meta' = IF fail = "verification_nonce" THEN m1 ELSE m2
            /\ result' = Result("init", "Database", None)
            /\ h_password' = None
            /\ h_written' = NoWrites
            /\ h_cycle' = "fresh"
            /\ residue' = residue \cup drop_DerivedKey(k)
            /\ UNCHANGED <<key, audit_log>>
       ELSE /\ vault_meta' = m3
            /\ key' = None
            /\ residue' = residue \cup Release(key) \cup drop_DerivedKey(k)
            /\ audit_log' = log_audit(audit_log, "init", "vault", TRUE, None, clock)
            /\ result' = Result("init", "Ok", None)
            /\ h_password' = Some(password)
            /\ h_written' = NoWrites
            /\ h_cycle' = "fresh"
    /\ UNCHANGED <<secrets, clock, ledger_env, sync_env, caller>>

\* ClawBox::init; fail names the set_meta call that returns a storage error
init(password, salt, nonce, fail) ==
    LET k == derive_key(password, salt)
        encrypted == encrypt(VerificationToken, k, nonce)
        m1 == set_meta(vault_meta, "salt", salt)
        m2 == set_meta(m1, "verification_nonce", encrypted.nonce)
        m3 == set_meta(m2, "verification_data", encrypted.ciphertext)
    IN
    /\ IF fail = "salt"
       THEN /\ result' = Result("init", "Database", None)
            /\ UNCHANGED <<vault_meta, key, audit_log, history, residue>>
       ELSE IF fail \in {"verification_nonce", "verification_data"}
       THEN /\ vault_meta' = IF fail = "verification_nonce" THEN m1 ELSE m2
            /\ result' = Result("init", "Database", None)
            /\ h_password' = None
            /\ h_written' = NoWrites
            /\ h_cycle' = "fresh"
            /\ residue' = residue \cup drop_DerivedKey(k)
            /\ UNCHANGED <<key, audit_log>>
       ELSE /\ vault_meta' = m3
            /\ key' = Some(k)
            /\ residue' = residue \cup Release(key)
            /\ audit_log' = log_audit(audit_log, "init", "vault", TRUE, None, clock)
            /\ result' = Result("init", "Ok", None)
            /\ h_password' = Some(password)
            /\ h_written' = NoWrites
            /\ h_cycle' = "fresh"
    /\ UNCHANGED <<secrets, clock, ledger_env, sync_env, caller>>

\* mutant: a missing salt reported as InvalidPassword
unlock_outcome_collapsed(meta, password, fail) ==
    LET salt == get_meta(meta, "salt")
        nonce == get_meta(meta, "verification_nonce")
        ciphertext == get_meta(meta, "verification_data")
    IN
    IF fail /= "none" THEN [ret |-> "Database", key |-> None]
    ELSE IF salt = None \/ nonce = None \/ ciphertext = None
         THEN [ret |-> "InvalidPassword", key |-> None]
    ELSE LET k == derive_key(password, salt[1])
             decrypted == decrypt([nonce |-> nonce[1], ciphertext |-> ciphertext[1]], k)
         IN IF ~decrypted.ok \/ decrypted.plaintext /= Some(VerificationToken)
            THEN [ret |-> "InvalidPassword", key |-> None]
            ELSE [ret |-> "Ok", key |-> Some(k)]

\* the Result<()> of ClawBox::unlock and the key it would retain
unlock_outcome(meta, password, fail) ==
    LET salt == get_meta(meta, "salt")
        nonce == get_meta(meta, "verification_nonce")
        ciphertext == get_meta(meta, "verification_data")
    IN
    IF fail /= "none" THEN [ret |-> "Database", key |-> None]
    ELSE IF salt = None THEN [ret |-> "VaultNotFound", key |-> None]
    ELSE IF nonce = None \/ ciphertext = None THEN [ret |-> "InvalidPassword", key |-> None]
    ELSE LET k == derive_key(password, salt[1])
             decrypted == decrypt([nonce |-> nonce[1], ciphertext |-> ciphertext[1]], k)
         IN IF ~decrypted.ok THEN [ret |-> "InvalidPassword", key |-> None]
            ELSE IF decrypted.plaintext /= Some(VerificationToken)
                 THEN [ret |-> "InvalidPassword", key |-> None]
                 ELSE [ret |-> "Ok", key |-> Some(k)]

\* mutant: an unlock that fails drops the key the vault held
unlock_failure_locks(password, fail) ==
    LET out == unlock_outcome(vault_meta, password, fail) IN
    /\ key' = out.key
    /\ result' = Result("unlock", out.ret, None)
    /\ h_cycle' = IF out.ret = "Ok" /\ h_cycle = "locked" THEN "cycled" ELSE h_cycle
    /\ residue' = residue \cup Release(key)
    /\ UNCHANGED <<vault_meta, secrets, audit_log, clock, h_password, h_written,
                   ledger_env, sync_env, caller>>

\* mutant: unlock that logs an Action::Unlock entry with its outcome
unlock_audited(password, fail) ==
    LET out == unlock_outcome(vault_meta, password, fail) IN
    /\ key' = IF out.ret = "Ok" THEN out.key ELSE key
    /\ result' = Result("unlock", out.ret, None)
    /\ h_cycle' = IF out.ret = "Ok" /\ h_cycle = "locked" THEN "cycled" ELSE h_cycle
    /\ residue' = residue \cup
                      IF out.ret = "Ok" THEN Release(key)
                      ELSE IF get_meta(vault_meta, "salt") = None THEN {}
                      ELSE drop_DerivedKey(derive_key(password,
                                                      get_meta(vault_meta, "salt")[1]))
    /\ audit_log' = log_audit(audit_log, "unlock", "vault", out.ret = "Ok",
                              IF out.ret = "Ok" THEN None ELSE Some(out.ret), clock)
    /\ UNCHANGED <<vault_meta, secrets, clock, h_password, h_written,
                   ledger_env, sync_env, caller>>

\* ClawBox::unlock; fail /= "none": a get_meta call returns a storage error
unlock(password, fail) ==
    LET out == unlock_outcome(vault_meta, password, fail) IN
    /\ key' = IF out.ret = "Ok" THEN out.key ELSE key
    /\ result' = Result("unlock", out.ret, None)
    /\ h_cycle' = IF out.ret = "Ok" /\ h_cycle = "locked" THEN "cycled" ELSE h_cycle
    /\ residue' = residue \cup
                      IF out.ret = "Ok" THEN Release(key)
                      ELSE IF get_meta(vault_meta, "salt") = None THEN {}
                      ELSE drop_DerivedKey(derive_key(password,
                                                      get_meta(vault_meta, "salt")[1]))
    /\ UNCHANGED <<vault_meta, secrets, audit_log, clock, h_password, h_written,
                   ledger_env, sync_env, caller>>

\* mutant: the key is borrowed, not taken, and stays in the vault
lock_keeps_key ==
    /\ result' = Result("lock", "Ok", Some(key /= None))
    /\ h_cycle' = IF h_cycle = "fresh" THEN "locked" ELSE h_cycle
    /\ UNCHANGED <<vault_meta, secrets, audit_log, key, clock, h_password, h_written,
                   ledger_env, residue, sync_env, caller>>

\* ClawBox::lock; the result records whether a key was taken and dropped
lock ==
    /\ key' = None
    /\ result' = Result("lock", "Ok", Some(key /= None))
    /\ h_cycle' = IF h_cycle = "fresh" THEN "locked" ELSE h_cycle
    /\ residue' = residue \cup Release(key)
    /\ UNCHANGED <<vault_meta, secrets, audit_log, clock, h_password, h_written,
                   ledger_env, sync_env, caller>>

\* impl Drop for ClawBox, which calls lock(), followed by ClawBox::open on the
\* same path; the result records whether a key was taken and dropped
drop ==
    /\ key' = None
    /\ result' = Result("drop", "Ok", Some(key /= None))
    /\ h_cycle' = IF h_cycle = "fresh" THEN "locked" ELSE h_cycle
    /\ residue' = residue \cup Release(key)
    /\ UNCHANGED <<vault_meta, secrets, audit_log, clock, h_password, h_written,
                   ledger_env, sync_env, caller>>

\* mutant: a blob that does not decrypt is reported as a missing secret
get_outcome_lenient(k, rows, path, fail) ==
    LET encrypted_data == store_get(rows, path) IN
    IF k = None THEN [ret |-> "VaultLocked", val |-> None, audit |-> None]
    ELSE IF fail /= "none" THEN [ret |-> "Database", val |-> None, audit |-> None]
    ELSE IF encrypted_data = None
         THEN [ret |-> "Ok", val |-> None,
               audit |-> Some([success |-> FALSE, error |-> Some("Not found")])]
    ELSE LET data == encrypted_data[1]
             plaintext == decrypt([nonce |-> data.nonce, ciphertext |-> data.ciphertext], k[1])
         IN IF data.len < NONCE_LEN \/ ~plaintext.ok
            THEN [ret |-> "Ok", val |-> None,
                  audit |-> Some([success |-> FALSE, error |-> Some("Not found")])]
            ELSE [ret |-> "Ok", val |-> Some(plaintext.plaintext[1]),
                  audit |-> Some([success |-> TRUE, error |-> None])]

\* what ClawBox::get returns under key k and the Read entry it logs, if any
get_outcome(k, rows, path, fail) ==
    LET encrypted_data == store_get(rows, path) IN
    IF k = None THEN [ret |-> "VaultLocked", val |-> None, audit |-> None]
    ELSE IF fail /= "none" THEN [ret |-> "Database", val |-> None, audit |-> None]
    ELSE IF encrypted_data = None
         THEN [ret |-> "Ok", val |-> None,
               audit |-> Some([success |-> FALSE, error |-> Some("Not found")])]
    ELSE LET data == encrypted_data[1] IN
         IF data.len < NONCE_LEN
         THEN [ret |-> "Decryption", val |-> None,
               audit |-> Some([success |-> FALSE, error |-> Some("Invalid data format")])]
         ELSE LET plaintext == decrypt([nonce |-> data.nonce, ciphertext |-> data.ciphertext], k[1])
              IN IF ~plaintext.ok
                 THEN [ret |-> "Decryption", val |-> None, audit |-> None]
                 ELSE [ret |-> "Ok", val |-> Some(plaintext.plaintext[1]),
                       audit |-> Some([success |-> TRUE, error |-> None])]

\* ClawBox::get; fail /= "none": the store's select returns a storage error
get(path, fail) ==
    LET out == get_outcome(key, secrets, path, fail) IN
    /\ result' = Result("get", out.ret, out.val)
    /\ audit_log' = IF out.audit = None THEN audit_log
                    ELSE log_audit(audit_log, "read", path, out.audit[1].success,
                                   out.audit[1].error, clock)
    /\ UNCHANGED <<vault_meta, secrets, key, clock, history, ledger_env, residue, sync_env, caller>>

\* mutant: the error of the audit log call is returned with ?
set_audit_propagated(path, value, opts, nonce, fail) ==
    IF key = None
    THEN /\ result' = Result("set", "VaultLocked", None)
         /\ UNCHANGED <<vault_meta, secrets, audit_log, key, clock, history, ledger_env, residue, sync_env, caller>>
    ELSE LET encrypted == encrypt(value, key[1], nonce)
             data == Blob(encrypted)
             info == [path |-> path, access |-> opts.access, tags |-> opts.tags,
                      note |-> opts.note, created_at |-> clock, updated_at |-> clock]
             logged == log(audit_log, AuditEntry("write", path, fail = "none",
                                                 IF fail = "none" THEN None
                                                 ELSE Some("Database"), clock, audit_log))
         IN /\ secrets' = IF fail = "none" THEN store_set(secrets, path, data, info, clock)
                           ELSE secrets
            /\ audit_log' = logged.rows
            /\ result' = Result("set", IF fail = "none" /\ logged.ok THEN "Ok"
                                       ELSE "Database", None)
            /\ h_written' = IF fail = "none" THEN [h_written EXCEPT ![path] = Some(value)]
                            ELSE h_written
            /\ h_cycle' = IF fail = "none" THEN "fresh" ELSE h_cycle
            /\ UNCHANGED <<vault_meta, key, clock, h_password, ledger_env, residue, sync_env, caller>>

\* ClawBox::set; fail /= "none": the store's upsert returns a storage error
set(path, value, opts, nonce, fail) ==
    IF key = None
    THEN /\ result' = Result("set", "VaultLocked", None)
         /\ UNCHANGED <<vault_meta, secrets, audit_log, key, clock, history, ledger_env, residue, sync_env, caller>>
    ELSE LET encrypted == encrypt(value, key[1], nonce)
             data == Blob(encrypted)
             info == [path |-> path, access |-> opts.access, tags |-> opts.tags,
                      note |-> opts.note, created_at |-> clock, updated_at |-> clock]
         IN IF fail = "none"
            THEN /\ secrets' = store_set(secrets, path, data, info, clock)
                 /\ audit_log' = log_audit(audit_log, "write", path, TRUE, None, clock)
                 /\ result' = Result("set", "Ok", None)
                 /\ h_written' = [h_written EXCEPT ![path] = Some(value)]
                 /\ h_cycle' = "fresh"
                 /\ UNCHANGED <<vault_meta, key, clock, h_password, ledger_env, residue, sync_env, caller>>
            ELSE /\ audit_log' = log_audit(audit_log, "write", path, FALSE,
                                           Some("Database"), clock)
                 /\ result' = Result("set", "Database", None)
                 /\ UNCHANGED <<vault_meta, secrets, key, clock, history, ledger_env, residue, sync_env, caller>>

\* mutant: delete without the is_unlocked check
delete_unguarded(path, fail) ==
    LET out == store_delete(secrets, path) IN
    /\ secrets' = out.rows
    /\ audit_log' = log_audit(audit_log, "delete", path, out.deleted,
                              IF out.deleted THEN None ELSE Some("Not found"), clock)
    /\ result' = Result("delete", "Ok", Some(out.deleted))
    /\ h_written' = [h_written EXCEPT ![path] = None]
    /\ h_cycle' = "fresh"
    /\ UNCHANGED <<vault_meta, key, clock, h_password, ledger_env, residue, sync_env, caller>>

\* ClawBox::delete; fail /= "none": the store's delete returns a storage error
delete(path, fail) ==
    IF ~is_unlocked
    THEN /\ result' = Result("delete", "VaultLocked", None)
         /\ UNCHANGED <<vault_meta, secrets, audit_log, key, clock, history, ledger_env, residue, sync_env, caller>>
    ELSE IF fail = "none"
         THEN LET out == store_delete(secrets, path) IN
              /\ secrets' = out.rows
              /\ audit_log' = log_audit(audit_log, "delete", path, out.deleted,
                                        IF out.deleted THEN None ELSE Some("Not found"),
                                        clock)
              /\ result' = Result("delete", "Ok", Some(out.deleted))
              /\ h_written' = [h_written EXCEPT ![path] = None]
              /\ h_cycle' = "fresh"
              /\ UNCHANGED <<vault_meta, key, clock, h_password, ledger_env, residue, sync_env, caller>>
         ELSE /\ audit_log' = log_audit(audit_log, "delete", path, FALSE,
                                        Some("Database"), clock)
              /\ result' = Result("delete", "Database", None)
              /\ UNCHANGED <<vault_meta, secrets, key, clock, history, ledger_env, residue, sync_env, caller>>

\* ClawBox::list; fail /= "none": the store's query returns a storage error
list(pattern, fail) ==
    /\ result' = IF ~is_unlocked THEN Result("list", "VaultLocked", None)
                 ELSE IF fail /= "none" THEN Result("list", "Database", None)
                 ELSE Result("list", "Ok", Some(store_list(secrets, pattern)))
    /\ UNCHANGED <<vault_meta, secrets, audit_log, key, clock, history, ledger_env, residue, sync_env, caller>>

\* bytes that no call of encrypt produced, len of them: the first NONCE_LEN
\* are read as the nonce, and no key authenticates the rest
RawBlob(len) ==
    [len |-> len, nonce |-> 0,
     ciphertext |-> [plaintext |-> 0, key |-> derive_key(0, 0), nonce |-> 0]]

\* the lengths of the raw blobs: empty, one byte short of a nonce, a nonce
\* and nothing after it
RawLens == {0, NONCE_LEN - 1, NONCE_LEN}

\* SecretStore::set called on the vault's file by a user of SqliteStore, with
\* bytes of its own as the value
store_write(path, len) ==
    /\ secrets' = store_set(secrets, path, RawBlob(len), DefaultOptions, clock)
    /\ result' = Result("store_set", "Ok", None)
    /\ h_written' = [h_written EXCEPT ![path] = None]
    /\ UNCHANGED <<vault_meta, audit_log, key, clock, h_password, h_cycle, ledger_env,
                   residue, sync_env, caller>>

\* the wall clock advances
Tick ==
    /\ clock < MaxClock
    /\ clock' = clock + 1
    /\ UNCHANGED <<vault_meta, secrets, audit_log, key, result, history, ledger_env, residue, sync_env, caller>>

\* every call of the vault's API, the storage engine never failing
Next ==
    \/ \E password \in Passwords, salt \in Salts, nonce \in Nonces :
           init(password, salt, nonce, "none")
    \/ \E password \in Passwords : unlock(password, "none")
    \/ lock
    \/ \E path \in Paths : get(path, "none")
    \/ \E path \in Paths, value \in Values, opts \in SetOptions, nonce \in Nonces :
           set(path, value, opts, nonce, "none")
    \/ \E path \in Paths : delete(path, "none")
    \/ \E pattern \in Patterns : list(pattern, "none")
    \/ Tick

Spec == Init /\ [][Next]_vars

\* the calls of the vault's API in which one storage call fails
Fault ==
    \/ \E password \in Passwords, salt \in Salts, nonce \in Nonces,
          fail \in {"salt", "verification_nonce", "verification_data"} :
           init(password, salt, nonce, fail)
    \/ \E password \in Passwords : unlock(password, "get_meta")
    \/ \E path \in Paths : get(path, "select")
    \/ \E path \in Paths, value \in Values, opts \in SetOptions, nonce \in Nonces :
           set(path, value, opts, nonce, "upsert")
    \/ \E path \in Paths : delete(path, "delete")
    \/ \E pattern \in Patterns : list(pattern, "select")

NextFault == Next \/ Fault

\* the vault over a storage engine whose calls may fail
SpecFault == Init /\ [][NextFault]_vars

\* The same calls on one vault, driven by callers that vary only part of the
\* inputs.

\* a caller with one secret that tries every password, salt and nonce
NextKey ==
    \/ \E password \in Passwords, salt \in Salts, nonce \in Nonces :
           init(password, salt, nonce, "none")
    \/ \E password \in Passwords : unlock(password, "none")
    \/ lock
    \/ get(PathStr(1), "none")
    \/ \E value \in Values, nonce \in Nonces :
           set(PathStr(1), value, DefaultOptions, nonce, "none")
    \/ delete(PathStr(1), "none")

SpecKey == Init /\ [][NextKey]_vars

\* the caller of SpecKey beside a user of SqliteStore that writes bytes of its
\* own into the row of the secret
NextBlob ==
    \/ NextKey
    \/ \E len \in RawLens : store_write(PathStr(1), len)

SpecBlob == Init /\ [][NextBlob]_vars

\* the calls of init and unlock in which one storage call fails
FaultKey ==
    \/ \E password \in Passwords, salt \in Salts, nonce \in Nonces,
          fail \in {"salt", "verification_nonce", "verification_data"} :
           init(password, salt, nonce, fail)
    \/ \E password \in Passwords : unlock(password, "get_meta")

NextKeyFault == NextKey \/ FaultKey

SpecKeyFault == Init /\ [][NextKeyFault]_vars

\* a salt that generate_salt draws and no earlier init has drawn
FreshSalt == MaxSalt + 1

\* the caller of SpecKeyFault, whose init may draw a fresh salt
NextReinit ==
    \/ NextKeyFault
    \/ \E password \in Passwords, nonce \in Nonces,
          fail \in {"none", "salt", "verification_nonce", "verification_data"} :
           init(password, FreshSalt, nonce, fail)

SpecReinit == Init /\ [][NextReinit]_vars

\* the same caller, whose vault object may go out of scope at any point
NextDrop == NextKeyFault \/ drop

SpecDrop == Init /\ [][NextDrop]_vars

\* a caller with one password, salt and nonce that uses every path, value,
\* option and pattern
NextStore ==
    \/ init(1, 1, 1, "none")
    \/ unlock(1, "none")
    \/ lock
    \/ \E path \in Paths : get(path, "none")
    \/ \E path \in Paths, value \in Values, opts \in SetOptions :
           set(path, value, opts, 1, "none")
    \/ \E path \in Paths : delete(path, "none")
    \/ \E pattern \in Patterns : list(pattern, "none")

SpecStore == Init /\ [][NextStore]_vars

\* a caller with one password that writes, reads and deletes one secret while
\* the wall clock advances
NextClock ==
    \/ init(1, 1, 1, "none")
    \/ unlock(1, "none")
    \/ lock
    \/ \E value \in Values, opts \in SetOptions, nonce \in Nonces :
           set(PathStr(1), value, opts, nonce, "none")
    \/ get(PathStr(1), "none")
    \/ delete(PathStr(1), "none")
    \/ Tick

SpecClock == Init /\ [][NextClock]_vars

\* ----------------------------------------------------------- audit ledger
\* ClawBox::open on a fresh directory, or on a file that holds an audit_log
\* table with a hash column; subsec is the sub-second part of Utc::now() in
\* the entries the vault builds
InitLedger ==
    /\ vault_meta = <<>>
    /\ secrets = {}
    /\ audit_log = <<>>
    /\ key = None
    /\ clock = 0
    /\ result = Result("open", "Ok", None)
    /\ h_password = None
    /\ h_written = NoWrites
    /\ h_cycle = "fresh"
    /\ audit_schema \in {AuditLogColumns, ExistingAuditLogColumns}
    /\ subsec \in 0..MaxSubsec
    /\ pending = [a \in Appenders |-> None]
    /\ h_edit = None
    /\ residue = {}
    /\ NoSync
    /\ caller = NoCaller

\* the timestamps an entry may carry: AuditEntry.timestamp is Utc::now() at
\* AuditEntry::new and a public field
DateTimes == {DateTime(secs, nanos) : secs \in 0..MaxClock, nanos \in 0..MaxSubsec}

\* AuditLogger::log(entry) called on the vault's connection
logger_log(id, dt, success) ==
    LET out == log(audit_log, NewEntry(id, dt, "write", PathStr(1), success, None)) IN
    /\ audit_log' = out.rows
    /\ result' = Result("log", IF out.ok THEN "Ok" ELSE "Database", None)
    /\ UNCHANGED <<vault_meta, secrets, key, clock, history, ledger_env, residue, sync_env, caller>>

\* ClawBox::verify_audit_integrity
verify_audit_integrity ==
    LET out == verify_integrity(audit_log) IN
    /\ result' = Result("verify_integrity", IF out.ok THEN "Ok" ELSE "Database", out.val)
    /\ UNCHANGED <<vault_meta, secrets, audit_log, key, clock, history, ledger_env, residue, sync_env, caller>>

\* the columns of a stored row that an editor of the file can change
Columns ==
    {"id", "timestamp", "actor_type", "identifier", "action", "key_path", "success",
     "error_message", "source", "hash", "prev_hash"}

\* row with one column changed to another value of its type
Edited(row, column) ==
    CASE column = "id" -> [row EXCEPT !.id = @ + MaxLog + 1]
      [] column = "timestamp" -> [row EXCEPT !.timestamp = @ + 1]
      [] column = "actor_type" -> [row EXCEPT !.actor.actor_type = "ai"]
      [] column = "identifier" -> [row EXCEPT !.actor.identifier = "other"]
      [] column = "action" -> [row EXCEPT !.action = "delete"]
      [] column = "key_path" -> [row EXCEPT !.key_path = PathStr(2)]
      [] column = "success" -> [row EXCEPT !.success = ~@]
      [] column = "error_message" -> [row EXCEPT !.error_message = Some("edited")]
      [] column = "source" -> [row EXCEPT !.source = "app"]
      [] column = "hash" -> [row EXCEPT !.hash = Some([@[1] EXCEPT !.success = ~@])]
      [] column = "prev_hash" ->
             [row EXCEPT !.prev_hash = IF @ = None THEN row.hash ELSE None]

\* a caller with one password and one secret, on either schema, until the
\* ledger holds MaxLog rows
NextAudit ==
    /\ Len(audit_log) < MaxLog
    /\ h_edit = None
    /\ \/ init(1, 1, 1, "none")
       \/ unlock(1, "none")
       \/ lock
       \/ get(PathStr(1), "none")
       \/ \E value \in Values, fail \in {"none", "upsert"} :
              set(PathStr(1), value, DefaultOptions, 1, fail)
       \/ \E fail \in {"none", "delete"} : delete(PathStr(1), fail)

SpecAudit == InitLedger /\ [][NextAudit]_vars

\* a caller with one secret that unlocks with every password, on either
\* schema, until the ledger holds MaxLog rows
NextAuditKey ==
    /\ Len(audit_log) < MaxLog
    /\ \/ init(1, 1, 1, "none")
       \/ \E password \in Passwords, fail \in {"none", "get_meta"} : unlock(password, fail)
       \/ lock
       \/ get(PathStr(1), "none")
       \/ set(PathStr(1), 1, DefaultOptions, 1, "none")

SpecAuditKey == InitLedger /\ [][NextAuditKey]_vars

\* the appenders that have read the last hash and not yet inserted
InFlight == {a \in Appenders : pending[a] /= None}

\* appender a builds its entry and runs the get_last_hash() of AuditLogger::log
log_read(a) ==
    LET last == get_last_hash(audit_log) IN
    /\ pending[a] = None
    /\ Len(audit_log) + Cardinality(InFlight) < MaxLog
    /\ IF last.ok
       THEN /\ pending' = [pending EXCEPT ![a] = Some([dt |-> DateTime(clock, 0),
                                                       prev_hash |-> last.hash])]
            /\ UNCHANGED result
       ELSE /\ result' = Result("log", "Database", None)
            /\ UNCHANGED pending
    /\ UNCHANGED <<vault_meta, secrets, audit_log, key, clock, history,
                   audit_schema, subsec, h_edit, residue, sync_env, caller>>

\* appender a runs the INSERT of AuditLogger::log with the hash it read
log_insert(a) ==
    /\ pending[a] /= None
    /\ LET entry == NewEntry(Len(audit_log) + 1, pending[a][1].dt, "write", PathStr(1),
                             TRUE, None)
           out == insert(audit_log, entry, pending[a][1].prev_hash)
       IN /\ audit_log' = out.rows
          /\ result' = Result("log", IF out.ok THEN "Ok" ELSE "Database", None)
    /\ pending' = [pending EXCEPT ![a] = None]
    /\ UNCHANGED <<vault_meta, secrets, key, clock, history, audit_schema, subsec, h_edit,
                   residue, sync_env, caller>>

\* two processes appending to one ledger file while the wall clock advances
NextAppend ==
    \/ \E a \in Appenders : log_read(a)
    \/ \E a \in Appenders : log_insert(a)
    \/ verify_audit_integrity
    \/ Tick

SpecAppend == InitLedger /\ [][NextAppend]_vars

\* out of band, once: UPDATE audit_log SET column = .. on the i-th row
edit_row(i, column) ==
    /\ h_edit = None
    /\ i \in 1..Len(audit_log)
    /\ audit_log' = [audit_log EXCEPT ![i] = Edited(@, column)]
    /\ h_edit' = Some(<<column, i>>)
    /\ UNCHANGED <<vault_meta, secrets, key, clock, result, history,
                   audit_schema, subsec, pending, residue, sync_env, caller>>

\* out of band, once: DELETE FROM audit_log on the i-th row
remove_row(i) ==
    /\ h_edit = None
    /\ i \in 1..Len(audit_log)
    /\ audit_log' = [n \in 1..(Len(audit_log) - 1) |->
                        IF n < i THEN audit_log[n] ELSE audit_log[n + 1]]
    /\ h_edit' = Some(<<"remove", i>>)
    /\ UNCHANGED <<vault_meta, secrets, key, clock, result, history,
                   audit_schema, subsec, pending, residue, sync_env, caller>>

\* a caller that appends entries of successful writes, with a fresh id or one
\* already used, and verifies the ledger
NextLedger ==
    \/ /\ Len(audit_log) < MaxLog
       /\ \E id \in 1..(Len(audit_log) + 1), dt \in DateTimes :
              logger_log(id, dt, TRUE)
    \/ verify_audit_integrity

SpecLedger == InitLedger /\ [][NextLedger]_vars

\* a ledger written at whole seconds of an advancing clock, then changed once
\* out of band, then verified
NextTamper ==
    \/ /\ h_edit = None
       /\ Len(audit_log) < MaxLog
       /\ \E success \in BOOLEAN :
              logger_log(Len(audit_log) + 1, DateTime(clock, 0), success)
    \/ (h_edit = None /\ Tick)
    \/ \E i \in 1..MaxLog, column \in Columns : edit_row(i, column)
    \/ \E i \in 1..MaxLog : remove_row(i)
    \/ verify_audit_integrity

SpecTamper == InitLedger /\ [][NextTamper]_vars

\* -------------------------------------------------------------------- sync
\* the bytes of a vault.db file; 1 is the file ClawBox::open creates
Contents == 1..MaxContent

\* the Vec<u8> keys a caller hands to set_key: KEY_LEN bytes or more
KeyVec(i) == [j \in 1..(KEY_LEN - 1 + i) |-> 1 + (i % 2)]
SyncKeys == {KeyVec(i) : i \in 1..MaxSyncKey}

\* DerivedKey::from_bytes: the first KEY_LEN bytes, zero padded
from_bytes(bytes) ==
    [bytes |-> [j \in 1..KEY_LEN |-> IF j <= Len(bytes) THEN bytes[j] ELSE 0]]

\* SyncMeta::new
SyncMeta(version, now, device_id) ==
    [version |-> version, timestamp |-> now, device_id |-> device_id]

\* SyncMeta::to_file: the three lines of the file
to_file(meta) == <<meta.version, meta.timestamp, meta.device_id>>

\* SyncMeta::from_file
from_file(content) ==
    [version |-> content[1], timestamp |-> content[2], device_id |-> content[3]]

\* ICloudSync::local_version over the files of the local vault directory
local_version(files) ==
    IF files.sync_meta = None THEN 0 ELSE from_file(files.sync_meta[1]).version

\* ICloudSync::remote_version over the container
remote_version(container) ==
    IF container.meta_file = None THEN 0 ELSE from_file(container.meta_file[1]).version

\* what a call leaves behind: its Result, the files of the device, the
\* container, and the key bytes it left in released memory
Outcome(ret, msg, files, container, left) ==
    [ret |-> ret, msg |-> msg, files |-> files, container |-> container, left |-> left]

\* DerivedKey::to_bytes
to_bytes(k) == k.bytes

\* mutant: a missing key read as an empty one
key_or_default(d) ==
    IF encryption_key[d] = None THEN Some(<<>>) ELSE encryption_key[d]

\* self.encryption_key.as_ref(), None giving Error::Other("Encryption key not set")
key_as_ref(d) == encryption_key[d]

\* the key bytes left by DerivedKey::from_bytes(key.clone()) once the
\* temporary key is dropped
CloneLeft(d) ==
    drop_Vec(key_as_ref(d)[1]) \cup drop_DerivedKey(from_bytes(key_as_ref(d)[1]))

\* mutant: push that numbers the upload after the remote version
push_outcome_after_remote(d, nonce, fail) ==
    LET files == local[d]
        encrypted == encrypt(files.vault_db[1], from_bytes(key_as_ref(d)[1]), nonce)
        written == [remote EXCEPT !.vault_file = Some(Blob(encrypted))]
        meta == SyncMeta(remote_version(remote) + 1, clock, d)
        with_meta == [written EXCEPT !.meta_file = Some(to_file(meta))]
    IN
    IF ~icloud_path[d]
    THEN Outcome("Other", Some("iCloud not available"), files, remote, {})
    ELSE IF key_as_ref(d) = None
    THEN Outcome("Other", Some("Encryption key not set"), files, remote, {})
    ELSE IF files.vault_db = None \/ fail = "read"
    THEN Outcome("Io", None, files, remote, {})
    ELSE IF fail = "encrypt"
    THEN Outcome("Encryption", None, files, remote, CloneLeft(d))
    ELSE IF fail = "write_vault"
    THEN Outcome("Io", None, files, remote, CloneLeft(d))
    ELSE IF fail = "write_remote_meta"
    THEN Outcome("Io", None, files, written, CloneLeft(d))
    ELSE IF fail = "write_local_meta"
    THEN Outcome("Io", None, files, with_meta, CloneLeft(d))
    ELSE Outcome("Ok", None, [files EXCEPT !.sync_meta = Some(to_file(meta))],
                 with_meta, CloneLeft(d))

\* ICloudSync::push on device d; fail names the step that returns an error
push_outcome(d, nonce, fail) ==
    LET files == local[d]
        encrypted == encrypt(files.vault_db[1], from_bytes(key_as_ref(d)[1]), nonce)
        written == [remote EXCEPT !.vault_file = Some(Blob(encrypted))]
        meta == SyncMeta(local_version(files) + 1, clock, d)
        with_meta == [written EXCEPT !.meta_file = Some(to_file(meta))]
    IN
    IF ~icloud_path[d]
    THEN Outcome("Other", Some("iCloud not available"), files, remote, {})
    ELSE IF key_as_ref(d) = None
    THEN Outcome("Other", Some("Encryption key not set"), files, remote, {})
    ELSE IF files.vault_db = None \/ fail = "read"
    THEN Outcome("Io", None, files, remote, {})
    ELSE IF fail = "encrypt"
    THEN Outcome("Encryption", None, files, remote, CloneLeft(d))
    ELSE IF fail = "write_vault"
    THEN Outcome("Io", None, files, remote, CloneLeft(d))
    ELSE IF fail = "write_remote_meta"
    THEN Outcome("Io", None, files, written, CloneLeft(d))
    ELSE IF fail = "write_local_meta"
    THEN Outcome("Io", None, files, with_meta, CloneLeft(d))
    ELSE Outcome("Ok", None, [files EXCEPT !.sync_meta = Some(to_file(meta))],
                 with_meta, CloneLeft(d))

\* a remote blob cut short of one nonce
Truncated ==
    [len |-> NONCE_LEN - 1, nonce |-> 0,
     ciphertext |-> [plaintext |-> 0, key |-> from_bytes(<<>>), nonce |-> 0]]

\* mutant: pull that overwrites vault.db without the backup copy
pull_outcome_without_backup(d, fail) ==
    LET files == local[d]
        sync_data == remote.vault_file[1]
        vault_data == decrypt([nonce |-> sync_data.nonce,
                               ciphertext |-> sync_data.ciphertext],
                              from_bytes(key_as_ref(d)[1]))
        backed == files
        replaced == [backed EXCEPT !.vault_db = vault_data.plaintext]
        remote_meta == from_file(remote.meta_file[1])
    IN
    IF ~icloud_path[d]
    THEN Outcome("Other", Some("iCloud not available"), files, remote, {})
    ELSE IF key_as_ref(d) = None
    THEN Outcome("Other", Some("Encryption key not set"), files, remote, {})
    ELSE IF remote.vault_file = None
    THEN Outcome("Other", Some("No remote vault found"), files, remote, {})
    ELSE IF fail = "read"
    THEN Outcome("Io", None, files, remote, {})
    ELSE IF sync_data.len < NONCE_LEN
    THEN Outcome("Other", Some("Invalid sync data"), files, remote, {})
    ELSE IF ~vault_data.ok
    THEN Outcome("Decryption", None, files, remote, CloneLeft(d))
    ELSE IF fail = "copy" /\ files.vault_db /= None
    THEN Outcome("Io", None, files, remote, CloneLeft(d))
    ELSE IF fail = "write"
    THEN Outcome("Io", None, backed, remote, CloneLeft(d))
    ELSE IF remote.meta_file = None \/ fail \in {"from_file", "to_file"}
    THEN Outcome("Io", None, replaced, remote, CloneLeft(d))
    ELSE Outcome("Ok", None, [replaced EXCEPT !.sync_meta = Some(to_file(remote_meta))],
                 remote, CloneLeft(d))

\* ICloudSync::pull on device d; fail names the step that returns an error
pull_outcome(d, fail) ==
    LET files == local[d]
        sync_data == remote.vault_file[1]
        vault_data == decrypt([nonce |-> sync_data.nonce,
                               ciphertext |-> sync_data.ciphertext],
                              from_bytes(key_as_ref(d)[1]))
        backed == IF files.vault_db = None THEN files
                  ELSE [files EXCEPT !.backup = files.vault_db]
        replaced == [backed EXCEPT !.vault_db = vault_data.plaintext]
        remote_meta == from_file(remote.meta_file[1])
    IN
    IF ~icloud_path[d]
    THEN Outcome("Other", Some("iCloud not available"), files, remote, {})
    ELSE IF key_as_ref(d) = None
    THEN Outcome("Other", Some("Encryption key not set"), files, remote, {})
    ELSE IF remote.vault_file = None
    THEN Outcome("Other", Some("No remote vault found"), files, remote, {})
    ELSE IF fail = "read"
    THEN Outcome("Io", None, files, remote, {})
    ELSE IF sync_data.len < NONCE_LEN
    THEN Outcome("Other", Some("Invalid sync data"), files, remote, {})
    ELSE IF ~vault_data.ok
    THEN Outcome("Decryption", None, files, remote, CloneLeft(d))
    ELSE IF fail = "copy" /\ files.vault_db /= None
    THEN Outcome("Io", None, files, remote, CloneLeft(d))
    ELSE IF fail = "write"
    THEN Outcome("Io", None, backed, remote, CloneLeft(d))
    ELSE IF remote.meta_file = None \/ fail \in {"from_file", "to_file"}
    THEN Outcome("Io", None, replaced, remote, CloneLeft(d))
    ELSE Outcome("Ok", None, [replaced EXCEPT !.sync_meta = Some(to_file(remote_meta))],
                 remote, CloneLeft(d))

\* applies the outcome of a call of device d to the state
Apply(d, op, out, val) ==
    /\ local' = [local EXCEPT ![d] = out.files]
    /\ remote' = out.container
    /\ residue' = residue \cup out.left
    /\ result' = Result(op, out.ret, IF out.ret = "Ok" THEN val ELSE out.msg)
    /\ h_sync' = IF op = "sync" /\ out.ret = "Ok" /\ h_sync[d] = "edited"
                 THEN [h_sync EXCEPT ![d] = "synced"]
                 ELSE h_sync
    /\ UNCHANGED <<vault_meta, secrets, audit_log, key, clock, history, ledger_env,
                   encryption_key, icloud_path, caller>>

\* ICloudSync::push
push(d, nonce, fail) ==
    /\ local_version(local[d]) < MaxVersion
    /\ Apply(d, "push", push_outcome(d, nonce, fail), None)

\* ICloudSync::pull
pull(d, fail) ==
    /\ d \in Devices
    /\ Apply(d, "pull", pull_outcome(d, fail), None)

\* mutant: sync that pulls or reports UpToDate and never pushes
sync_without_push(d, nonce, fail) ==
    IF ~icloud_path[d]
    THEN Apply(d, "sync", Outcome("Ok", None, local[d], remote, {}), Some("Unavailable"))
    ELSE IF remote_version(remote) > local_version(local[d])
    THEN Apply(d, "sync", pull_outcome(d, fail), Some("Pulled"))
    ELSE Apply(d, "sync", Outcome("Ok", None, local[d], remote, {}), Some("UpToDate"))

\* ICloudSync::sync
sync(d, nonce, fail) ==
    IF ~icloud_path[d]
    THEN Apply(d, "sync", Outcome("Ok", None, local[d], remote, {}), Some("Unavailable"))
    ELSE IF remote_version(remote) > local_version(local[d])
    THEN Apply(d, "sync", pull_outcome(d, fail), Some("Pulled"))
    ELSE IF local_version(local[d]) > remote_version(remote)
    THEN /\ local_version(local[d]) < MaxVersion
         /\ Apply(d, "sync", push_outcome(d, nonce, fail), Some("Pushed"))
    ELSE Apply(d, "sync", Outcome("Ok", None, local[d], remote, {}), Some("UpToDate"))

\* ICloudSync::set_key; the Vec it replaces is dropped
set_key(d, k) ==
    /\ encryption_key' = [encryption_key EXCEPT ![d] = Some(k)]
    /\ residue' = residue \cup
                      IF encryption_key[d] = None THEN {} ELSE drop_Vec(encryption_key[d][1])
    /\ result' = Result("set_key", "Ok", None)
    /\ UNCHANGED <<vault_meta, secrets, audit_log, key, clock, history, ledger_env,
                   local, remote, icloud_path, h_sync, caller>>

\* the ICloudSync of device d goes out of scope and a new one is created
drop_sync(d) ==
    /\ encryption_key[d] /= None
    /\ encryption_key' = [encryption_key EXCEPT ![d] = None]
    /\ residue' = residue \cup drop_Vec(encryption_key[d][1])
    /\ result' = Result("drop_sync", "Ok", None)
    /\ UNCHANGED <<vault_meta, secrets, audit_log, key, clock, history, ledger_env,
                   local, remote, icloud_path, h_sync, caller>>

\* mutant: an edit that also raises the version in sync.meta
vault_write_versioned(d, content) ==
    /\ local[d].vault_db /= Some(content)
    /\ local' = [local EXCEPT ![d].vault_db = Some(content),
                              ![d].sync_meta =
                                  Some(to_file(SyncMeta(local_version(local[d]) + 1, clock, d)))]
    /\ result' = Result("set", "Ok", None)
    /\ h_sync' = [h_sync EXCEPT ![d] = "edited"]
    /\ UNCHANGED <<vault_meta, secrets, audit_log, key, clock, history, ledger_env,
                   residue, remote, encryption_key, icloud_path, caller>>

\* ClawBox::set or delete on device d changes the bytes of its vault.db
vault_write(d, content) ==
    /\ local[d].vault_db /= Some(content)
    /\ local' = [local EXCEPT ![d].vault_db = Some(content)]
    /\ result' = Result("set", "Ok", None)
    /\ h_sync' = [h_sync EXCEPT ![d] = "edited"]
    /\ UNCHANGED <<vault_meta, secrets, audit_log, key, clock, history, ledger_env,
                   residue, remote, encryption_key, icloud_path, caller>>

\* the container holds a vault.encrypted shorter than one nonce
truncate_remote ==
    /\ remote.vault_file \notin {None, Some(Truncated)}
    /\ remote' = [remote EXCEPT !.vault_file = Some(Truncated)]
    /\ UNCHANGED <<vault_meta, secrets, audit_log, key, clock, result, history, ledger_env,
                   residue, local, encryption_key, icloud_path, h_sync, caller>>

\* two devices with opened vaults, device a with or without iCloud Drive
InitSync ==
    /\ vault_meta = <<>>
    /\ secrets = {}
    /\ audit_log = <<>>
    /\ key = None
    /\ clock = 0
    /\ result = Result("open", "Ok", None)
    /\ h_password = None
    /\ h_written = NoWrites
    /\ h_cycle = "fresh"
    /\ audit_schema = AuditLogColumns
    /\ subsec = 0
    /\ pending = [a \in Appenders |-> None]
    /\ h_edit = None
    /\ residue = {}
    /\ local = [d \in Devices |-> OpenedDir]
    /\ remote = EmptyContainer
    /\ encryption_key = [d \in Devices |-> None]
    /\ icloud_path \in {available \in [Devices -> BOOLEAN] : available["b"]}
    /\ h_sync = [d \in Devices |-> "clean"]
    /\ caller = NoCaller

\* two devices that share one key and push, pull and sync in any order, one
\* of them editing its vault
NextSync ==
    \/ \E d \in Devices : set_key(d, to_bytes(from_bytes(KeyVec(1))))
    \/ \E content \in Contents : vault_write("a", content)
    \/ \E d \in Devices : push(d, 1, "none")
    \/ \E d \in Devices : pull(d, "none")
    \/ \E d \in Devices : sync(d, 1, "none")

SpecSync == InitSync /\ [][NextSync]_vars

\* two devices that share one key, both editing their vaults, that sync and
\* push in any order
NextSyncEdit ==
    \/ \E d \in Devices : set_key(d, to_bytes(from_bytes(KeyVec(1))))
    \/ \E d \in Devices, content \in Contents : vault_write(d, content)
    \/ \E d \in Devices : push(d, 1, "none")
    \/ \E d \in Devices : sync(d, 1, "none")

SpecSyncEdit == InitSync /\ [][NextSyncEdit]_vars

\* two devices that share one key and edit their vaults only before their
\* first push or pull, then push, pull and sync in any order
NextSyncShared ==
    \/ \E d \in Devices : set_key(d, to_bytes(from_bytes(KeyVec(1))))
    \/ \E d \in Devices, content \in Contents :
           local[d].sync_meta = None /\ vault_write(d, content)
    \/ \E d \in Devices : push(d, 1, "none")
    \/ \E d \in Devices : pull(d, "none")
    \/ \E d \in Devices : sync(d, 1, "none")

SpecSyncShared == InitSync /\ [][NextSyncShared]_vars

\* the steps of push and pull that can return an error
PushSteps == {"read", "encrypt", "write_vault", "write_remote_meta", "write_local_meta"}
PullSteps == {"read", "copy", "write", "from_file", "to_file"}

\* device a with any key, which it may replace or drop, beside device b that
\* only pushes, and a container whose blob may get cut short
NextSyncKey ==
    \/ \E k \in SyncKeys : set_key("a", k)
    \/ set_key("b", KeyVec(1))
    \/ drop_sync("a")
    \/ \E d \in Devices : push(d, 1, "none")
    \/ pull("a", "none")
    \/ truncate_remote

SpecSyncKey == InitSync /\ [][NextSyncKey]_vars

\* device a, whose file system and container calls may fail, beside device b
\* that only pushes
NextSyncFault ==
    \/ \E d \in Devices : set_key(d, KeyVec(1))
    \/ \E content \in Contents : vault_write("a", content)
    \/ \E d \in Devices : push(d, 1, "none")
    \/ pull("a", "none")
    \/ \E fail \in PushSteps : push("a", 1, fail)
    \/ \E fail \in PullSteps : pull("a", fail)

SpecSyncFault == InitSync /\ [][NextSyncFault]_vars

\* ----------------------------------------------------------- crypto module
\* the plaintexts a caller of encrypt passes: the token and the secret values
Plaintexts == {VerificationToken} \cup Values

\* the two keys a caller holds, key1 and key2 of test_wrong_password
KeySlots == {"key1", "key2"}

\* crypto::derive_key called directly; the key it replaces is dropped
call_derive_key(slot, password, salt) ==
    /\ caller' = [caller EXCEPT ![slot] = Some(derive_key(password, salt))]
    /\ residue' = residue \cup Release(caller[slot])
    /\ result' = Result("derive_key", "Ok", None)
    /\ UNCHANGED <<vault_meta, secrets, audit_log, key, clock, history, ledger_env,
                   sync_env>>

\* crypto::encrypt called directly with one of the caller's keys
call_encrypt(slot, plaintext, nonce) ==
    /\ caller[slot] /= None
    /\ caller' = [caller EXCEPT !.encrypted = Some(encrypt(plaintext, caller[slot][1], nonce))]
    /\ result' = Result("encrypt", "Ok", None)
    /\ UNCHANGED <<vault_meta, secrets, audit_log, key, clock, history, ledger_env,
                   residue, sync_env>>

\* crypto::decrypt called directly on the caller's EncryptedData with one of
\* its keys
call_decrypt(slot) ==
    /\ caller[slot] /= None
    /\ caller.encrypted /= None
    /\ LET out == decrypt(caller.encrypted[1], caller[slot][1]) IN
       result' = Result("decrypt", IF out.ok THEN "Ok" ELSE "Decryption", out.plaintext)
    /\ UNCHANGED <<vault_meta, secrets, audit_log, key, clock, history, ledger_env,
                   residue, sync_env, caller>>

\* a caller of the crypto module that derives keys from every password and
\* salt, encrypts and decrypts
NextCrypto ==
    \/ \E slot \in KeySlots, password \in Passwords, salt \in Salts :
           call_derive_key(slot, password, salt)
    \/ \E slot \in KeySlots, plaintext \in Plaintexts, nonce \in Nonces :
           call_encrypt(slot, plaintext, nonce)
    \/ \E slot \in KeySlots : call_decrypt(slot)

SpecCrypto == Init /\ [][NextCrypto]_vars

\* --------------------------------------------------------------------- ffi
\* the status codes of clawbox-ffi
CLAWBOX_OK == 0
CLAWBOX_ERR_VAULT_LOCKED == 1
CLAWBOX_ERR_INVALID_PASSWORD == 2
CLAWBOX_ERR_NOT_FOUND == 3
CLAWBOX_ERR_IO == 4
CLAWBOX_ERR_UNKNOWN == -1

\* the c_int that clawbox_init returns when vault.init returned r
clawbox_init(r) == IF r.ret = "Ok" THEN CLAWBOX_OK ELSE CLAWBOX_ERR_IO

\* the c_int that clawbox_unlock returns when vault.unlock returned r
clawbox_unlock(r) ==
    IF r.ret = "Ok" THEN CLAWBOX_OK
    ELSE IF r.ret = "InvalidPassword" THEN CLAWBOX_ERR_INVALID_PASSWORD
    ELSE CLAWBOX_ERR_UNKNOWN

\* the c_int that clawbox_get returns when vault.get returned r; the values
\* of the model hold no NUL byte, so CString::new succeeds
clawbox_get(r) ==
    IF r.ret = "Ok" THEN (IF Val(r) /= None THEN CLAWBOX_OK ELSE CLAWBOX_ERR_NOT_FOUND)
    ELSE IF r.ret = "VaultLocked" THEN CLAWBOX_ERR_VAULT_LOCKED
    ELSE CLAWBOX_ERR_UNKNOWN

\* the c_int that clawbox_set returns when vault.set returned r
clawbox_set(r) ==
    IF r.ret = "Ok" THEN CLAWBOX_OK
    ELSE IF r.ret = "VaultLocked" THEN CLAWBOX_ERR_VAULT_LOCKED
    ELSE CLAWBOX_ERR_UNKNOWN

\* the c_int that clawbox_delete returns when vault.delete returned r
clawbox_delete(r) ==
    IF r.ret = "Ok" THEN (IF Val(r) = Some(TRUE) THEN CLAWBOX_OK ELSE CLAWBOX_ERR_NOT_FOUND)
    ELSE IF r.ret = "VaultLocked" THEN CLAWBOX_ERR_VAULT_LOCKED
    ELSE CLAWBOX_ERR_UNKNOWN

\* the caller of SpecKeyFault through the adapter, whose get, set and delete
\* calls may also meet a storage error
NextFfi ==
    \/ NextKeyFault
    \/ get(PathStr(1), "select")
    \/ \E value \in Values, nonce \in Nonces :
           set(PathStr(1), value, DefaultOptions, nonce, "upsert")
    \/ delete(PathStr(1), "delete")

SpecFfi == Init /\ [][NextFfi]_vars

\* ------------------------------------------------------------------ claims

\* C1: after a successful init(P) followed by any set and delete calls and a
\* lock(), unlock(P) with the same password returns Ok and leaves the vault
\* unlocked.
C1_UnlockAfterInit ==
    [][\A password \in Passwords :
          (key = None /\ h_password = Some(password) /\ unlock(password, "none"))
              => (result'.ret = "Ok" /\ key' /= None)]_vars

\* a secret was written after init, the vault was locked, and the last call,
\* an unlock, succeeded
C1_Witness ==
    /\ result.op = "unlock" /\ result.ret = "Ok"
    /\ key /= None
    /\ h_cycle = "cycled"
    /\ \E p \in Paths : h_written[p] /= None

\* C2: on an initialized, locked vault, unlock(W) with a password W other than
\* the one given to init returns InvalidPassword and no key is retained.
C2_WrongPassword ==
    [][\A password \in Passwords :
          (/\ key = None
           /\ h_password /= None /\ h_password /= Some(password)
           /\ unlock(password, "none"))
              => (result'.ret = "InvalidPassword" /\ key' = None)]_vars

\* the last call was an unlock of an initialized vault that failed
C2_Witness ==
    /\ result.op = "unlock" /\ result.ret = "InvalidPassword"
    /\ h_password /= None
    /\ key = None

\* C3: while no later set, delete or init touched the path, get(path) on the
\* unlocked vault returns Some(v) for the value v last set there, whatever
\* lock / unlock cycles were made since.
C3_GetAfterRelock ==
    [][\A path \in Paths :
          (key /= None /\ h_written[path] /= None /\ get(path, "none"))
              => (result'.ret = "Ok" /\ Val(result') = h_written[path])]_vars

\* a get after a lock / unlock cycle returned the value written before it
C3_Witness ==
    /\ result.op = "get" /\ result.ret = "Ok" /\ Val(result) /= None
    /\ h_cycle = "cycled"
    /\ key /= None
    /\ \E p \in Paths : h_written[p] = Val(result)

\* C4: while no key is held, get, set, delete and list return VaultLocked and
\* leave the secret rows and the vault metadata unchanged.
C4_LockedRefuses ==
    [][(/\ key = None
        /\ \/ \E path \in Paths : get(path, "none")
           \/ \E path \in Paths, value \in Values, opts \in SetOptions, nonce \in Nonces :
                  set(path, value, opts, nonce, "none")
           \/ \E path \in Paths : delete(path, "none")
           \/ \E pattern \in Patterns : list(pattern, "none"))
          => (result'.ret = "VaultLocked" /\ UNCHANGED <<secrets, vault_meta>>)]_vars

\* a call was refused on a locked vault that holds secrets
C4_Witness ==
    /\ result.ret = "VaultLocked"
    /\ key = None
    /\ secrets /= {}

C6_LockIdempotent ==
    [][lock => (/\ key' = None
                /\ UNCHANGED <<vault_meta, secrets, audit_log>>
                /\ key = None => UNCHANGED <<key, vault_meta, secrets, audit_log>>)]_vars

\* lock() was called on an already locked vault that holds secrets
C6_Witness ==
    /\ result.op = "lock" /\ Val(result) = Some(FALSE)
    /\ key = None
    /\ secrets /= {}

\* the store holds at most one row per path
UniquePaths(rows) == \A r1, r2 \in rows : r1.path = r2.path => r1 = r2

\* C7: after any set or other call the store holds at most one row per path; a
\* set of an existing path replaces value, access, tags and note, refreshes
\* updated_at and keeps created_at.
C7_Upsert ==
    [][/\ UniquePaths(secrets')
       /\ \A path \in Paths, value \in Values, opts \in SetOptions, nonce \in Nonces :
            (/\ key /= None
             /\ \E r \in secrets : r.path = path
             /\ set(path, value, opts, nonce, "none"))
                => LET old == CHOOSE r \in secrets : r.path = path
                       new == CHOOSE r \in secrets' : r.path = path
                   IN /\ get_outcome(key', secrets', path, "none").val = Some(value)
                      /\ new.access_level = opts.access
                      /\ new.tags = opts.tags
                      /\ new.note = opts.note
                      /\ new.updated_at = clock
                      /\ new.created_at = old.created_at]_vars

\* a row was set again later than it was created
C7_Witness ==
    /\ result.op = "set" /\ result.ret = "Ok"
    /\ \E r \in secrets : r.created_at < r.updated_at /\ r.updated_at = clock

\* C8: delete(path) on an unlocked vault returns Ok(true) exactly when a row
\* existed at path and Ok(false) when none did; afterwards get(path) returns
\* None.
C8_Delete ==
    [][\A path \in Paths :
          (key /= None /\ delete(path, "none"))
              => /\ result'.ret = "Ok"
                 /\ Val(result') = Some(\E r \in secrets : r.path = path)
                 /\ get_outcome(key', secrets', path, "none").ret = "Ok"
                 /\ get_outcome(key', secrets', path, "none").val = None]_vars

\* delete of a path that holds no secret returned false while another secret
\* is stored
C8_Witness ==
    /\ result.op = "delete" /\ result.ret = "Ok" /\ Val(result) = Some(FALSE)
    /\ key /= None
    /\ secrets /= {}

\* C9: every get on an unlocked vault appends exactly one Read audit entry.
C9_GetAudited ==
    [][\A path \in Paths :
          (key /= None /\ get(path, "none"))
              => /\ Len(audit_log') = Len(audit_log) + 1
                 /\ audit_log'[Len(audit_log')].action = "read"
                 /\ audit_log'[Len(audit_log')].key_path = path]_vars

\* C10: every set or delete that reaches the store appends exactly one audit
\* entry whose success flag is the outcome: for set, that the upsert
\* succeeded; for delete, that a row existed.
C10_WriteAudited ==
    [][/\ \A path \in Paths, value \in Values, opts \in SetOptions, nonce \in Nonces :
            (key /= None /\ set(path, value, opts, nonce, "none"))
                => /\ Len(audit_log') = Len(audit_log) + 1
                   /\ audit_log'[Len(audit_log')].action = "write"
                   /\ audit_log'[Len(audit_log')].success = TRUE
       /\ \A path \in Paths :
            (key /= None /\ delete(path, "none"))
                => /\ Len(audit_log') = Len(audit_log) + 1
                   /\ audit_log'[Len(audit_log')].action = "delete"
                   /\ audit_log'[Len(audit_log')].success = (\E r \in secrets : r.path = path)]_vars

\* the ids of the rows of a ledger
IdsOf(rows) == {rows[i].id : i \in 1..Len(rows)}

\* C11: on the schema created by open(), log(entry) with a fresh id returns Ok
\* and appends one row that holds the entry with its hash and prev_hash.
C11_LogPersists ==
    [][\A id \in 1..(MaxLog + 1), dt \in DateTimes, success \in BOOLEAN :
          (/\ audit_schema = AuditLogColumns
           /\ id \notin IdsOf(audit_log)
           /\ logger_log(id, dt, success))
              => /\ result'.ret = "Ok"
                 /\ Len(audit_log') = Len(audit_log) + 1
                 /\ audit_log'[Len(audit_log')].id = id
                 /\ audit_log'[Len(audit_log')].hash /= None]_vars

\* C12: with log calls only and no change made out of band,
\* verify_integrity() returns Ok(true).
C12_VerifiesAfterLogs ==
    [][verify_audit_integrity
          => (result'.ret = "Ok" /\ Val(result') = Some(TRUE))]_vars

\* C14: each row's prev_hash is the hash of the row inserted immediately
\* before it, and is absent only in the first row.
C14_PrevIsLastInserted ==
    \A i \in 1..Len(audit_log) :
        audit_log[i].prev_hash = (IF i = 1 THEN None ELSE audit_log[i - 1].hash)

\* C16: a log() call that does not return Ok leaves the ledger as it was, and
\* one that returns Ok appends exactly the entry with its hash over the hash
\* of the row get_last_hash selects.
C16_FailedLogNoRow ==
    [][\A id \in 1..(MaxLog + 1), dt \in DateTimes, success \in BOOLEAN :
          logger_log(id, dt, success)
              => IF result'.ret = "Ok"
                 THEN LET entry == NewEntry(id, dt, "write", PathStr(1), success, None)
                          prev == get_last_hash(audit_log).hash
                      IN audit_log' = Append(audit_log,
                             [entry EXCEPT !.timestamp = timestamp(dt),
                                           !.prev_hash = prev,
                                           !.hash = Some(compute_hash(entry, prev))])
                 ELSE audit_log' = audit_log]_vars

\* a log call failed on a ledger that holds rows
C16_Witness ==
    /\ result.op = "log" /\ result.ret = "Database"
    /\ audit_log /= <<>>

\* verify_integrity() returns Ok(true) on the rows
Verifies(rows) == verify_integrity(rows).val = Some(TRUE)

\* C13: in a ledger that verifies, changing the success column of one row
\* out of band makes verify_integrity() return Ok(false).
C13_SuccessEditDetected ==
    [][\A i \in 1..MaxLog :
          (Verifies(audit_log) /\ edit_row(i, "success"))
              => verify_integrity(audit_log').val = Some(FALSE)]_vars

\* the success column of a row of a verifying ledger was changed and the
\* verify_integrity() call after it returned Ok(false)
C13_Witness ==
    /\ \E i \in 1..MaxLog : h_edit = Some(<<"success", i>>)
    /\ result.op = "verify_integrity" /\ result.ret = "Ok" /\ Val(result) = Some(FALSE)
    /\ Verifies([audit_log EXCEPT ![h_edit[1][2]] = Edited(@, "success")])

\* C15 as claimed: in a ledger that verifies, removing any row or changing
\* any column of a row makes verify_integrity() return Ok(false).
C15_Original ==
    [][\A i \in 1..MaxLog :
          (/\ Verifies(audit_log)
           /\ \/ remove_row(i)
              \/ \E column \in Columns : edit_row(i, column))
              => verify_integrity(audit_log').val = Some(FALSE)]_vars

\* the columns whose value enters compute_hash or is compared with it
HashedColumns == {"id", "timestamp", "actor_type", "action", "key_path", "success", "hash"}

\* C15 as amended: in a ledger that verifies, removing a row other than the
\* newest, or changing a hashed column of a row, makes verify_integrity()
\* return Ok(false); removing the newest row, or changing the actor
\* identifier, error_message, source or prev_hash of a row, leaves it
\* returning Ok(true).
C15_TamperDetected ==
    [][\A i \in 1..MaxLog :
          Verifies(audit_log) =>
              /\ remove_row(i) => (Verifies(audit_log') <=> i = Len(audit_log))
              /\ \A column \in Columns :
                    edit_row(i, column)
                        => (Verifies(audit_log') <=> column \notin HashedColumns)]_vars

\* a row other than the newest was removed from a ledger that verified and
\* the verify_integrity() call after it returned Ok(false)
C15_Witness ==
    /\ \E i \in 1..MaxLog : h_edit = Some(<<"remove", i>>) /\ i <= Len(audit_log)
    /\ result.op = "verify_integrity" /\ result.ret = "Ok" /\ Val(result) = Some(FALSE)

\* C17: init, get, set and delete return the same result and leave the same
\* secrets, salt, verification record and key whether the audit log call they
\* make succeeds or fails.
C17_AuditIndependent ==
    [][/\ init(1, 1, 1, "none") =>
              /\ result' = Result("init", "Ok", None)
              /\ key' = Some(derive_key(1, 1))
              /\ get_meta(vault_meta', "salt") = Some(1)
              /\ secrets' = secrets
       /\ get(PathStr(1), "none") =>
              LET out == get_outcome(key, secrets, PathStr(1), "none") IN
              /\ result' = Result("get", out.ret, out.val)
              /\ secrets' = secrets
       /\ \A value \in Values, fail \in {"none", "upsert"} :
              set(PathStr(1), value, DefaultOptions, 1, fail) =>
                  /\ result'.ret = IF key = None THEN "VaultLocked"
                                   ELSE IF fail = "none" THEN "Ok" ELSE "Database"
                  /\ secrets' = IF key = None \/ fail /= "none" THEN secrets
                                ELSE store_set(secrets, PathStr(1),
                                               Blob(encrypt(value, key[1], 1)),
                                               [path |-> PathStr(1),
                                                access |-> DefaultOptions.access,
                                                tags |-> DefaultOptions.tags,
                                                note |-> DefaultOptions.note,
                                                created_at |-> clock,
                                                updated_at |-> clock], clock)
       /\ \A fail \in {"none", "delete"} :
              delete(PathStr(1), fail) =>
                  LET out == store_delete(secrets, PathStr(1)) IN
                  /\ result' = IF key = None THEN Result("delete", "VaultLocked", None)
                               ELSE IF fail /= "none" THEN Result("delete", "Database", None)
                               ELSE Result("delete", "Ok", Some(out.deleted))
                  /\ secrets' = IF key = None \/ fail /= "none" THEN secrets ELSE out.rows
      ]_vars

\* set returned Ok and stored the secret although its audit log call failed
C17_Witness ==
    /\ audit_schema = AuditLogColumns
    /\ audit_log = <<>>
    /\ result = Result("set", "Ok", None)
    /\ store_get(secrets, PathStr(1)) /= None

\* C18: with two appenders logging against one ledger, no two stored entries
\* have the same prev_hash and the stored chain passes verify_integrity().
C18_AtomicAppend ==
    /\ \A i, j \in 1..Len(audit_log) :
           i /= j => audit_log[i].prev_hash /= audit_log[j].prev_hash
    /\ audit_log /= <<>> => Verifies(audit_log)

\* the verification record of meta opens to the token under key k
VerifiesToken(meta, k) ==
    /\ get_meta(meta, "verification_nonce") /= None
    /\ get_meta(meta, "verification_data") /= None
    /\ decrypt([nonce |-> get_meta(meta, "verification_nonce")[1],
                ciphertext |-> get_meta(meta, "verification_data")[1]], k)
           = [ok |-> TRUE, plaintext |-> Some(VerificationToken)]

\* C19: an init(password) that returns Ok has persisted the salt and the
\* encrypted verification token, and leaves the vault initialized and
\* unlocked with the key derived from the password and the persisted salt.
C19_InitPersists ==
    [][\A password \in Passwords, salt \in Salts, nonce \in Nonces :
          (init(password, salt, nonce, "none") /\ result'.ret = "Ok")
              => /\ get_meta(vault_meta', "salt") = Some(salt)
                 /\ VerifiesToken(vault_meta', derive_key(password, salt))
                 /\ is_initialized'
                 /\ is_unlocked'
                 /\ key' = Some(derive_key(password, get_meta(vault_meta', "salt")[1]))]_vars

\* init has returned Ok and the vault is initialized and unlocked
C19_Witness ==
    /\ result = Result("init", "Ok", None)
    /\ is_initialized
    /\ is_unlocked
    /\ VerifiesToken(vault_meta, key[1])

\* the stored secrets that key k does not open
Foreign(rows, k) ==
    {r \in rows : ~decrypt([nonce |-> r.encrypted_value.nonce,
                             ciphertext |-> r.encrypted_value.ciphertext], k).ok}

C21_InitAllOrNothing ==
    [][\A password \in Passwords, salt \in Salts, nonce \in Nonces,
          fail \in {"salt", "verification_nonce", "verification_data"} :
          (init(password, salt, nonce, fail) /\ result'.ret /= "Ok")
              => vault_meta' = vault_meta]_vars

\* C22: after lock(), and after the vault object is dropped, the vault holds
\* no key and no key bytes are left in the memory it has released, whether the
\* earlier calls returned Ok or an error.
C22_KeyZeroized ==
    [][(lock \/ drop) => (key' = None /\ residue' = {})]_vars

\* an unlocked vault was dropped: its key was taken and nothing of it is left
C22_Witness ==
    /\ result = Result("drop", "Ok", Some(TRUE))
    /\ key = None
    /\ residue = {}

\* the content that the blob in the container opens to under the key of d
RemoteContent(container, d) ==
    decrypt([nonce |-> container.vault_file[1].nonce,
             ciphertext |-> container.vault_file[1].ciphertext],
            from_bytes(encryption_key[d][1])).plaintext

\* C24: with iCloud available, a sync() that returns Ok has pulled exactly when
\* the remote version was above the local one (the local version becomes the
\* remote one, the container is untouched), has pushed exactly when the local
\* version was above the remote one (the container gets the local store and
\* the next version), and with equal versions returns UpToDate and changes
\* neither the local files nor the container.
C24_SyncDirection ==
    [][\A d \in Devices :
          (icloud_path[d] /\ sync(d, 1, "none") /\ result'.ret = "Ok")
              => LET l == local_version(local[d])
                     r == remote_version(remote)
                 IN /\ Val(result') = Some(IF r > l THEN "Pulled"
                                           ELSE IF l > r THEN "Pushed" ELSE "UpToDate")
                    /\ r > l => /\ local_version(local'[d]) = r
                                /\ local'[d].vault_db = RemoteContent(remote, d)
                                /\ remote' = remote
                    /\ l > r => /\ remote_version(remote') = l + 1
                                /\ RemoteContent(remote', d) = local[d].vault_db
                                /\ local'[d].vault_db = local[d].vault_db
                    /\ l = r => UNCHANGED <<local, remote>>]_vars

\* a sync() found the local version above the remote one and pushed
C24_Witness ==
    /\ result = Result("sync", "Ok", Some("Pushed"))
    /\ \E d \in Devices : /\ icloud_path[d]
                          /\ local_version(local[d]) = remote_version(remote)
                          /\ from_file(remote.meta_file[1]).device_id = d

\* C23: every copy of the raw key made for sync, the Vec returned by to_bytes
\* and handed to set_key and the copies made from it, is zeroized when its
\* owner releases it: released memory holds no Vec with key bytes.
C23_ExportZeroized == \A bytes \in residue : bytes[1] /= "Vec"

\* C25: a pull that returns Ok leaves the local version equal to the remote
\* one, the local store equal to what the remote blob decrypts to, and the
\* backup equal to the local store as it was before the call.
C25_PullReplaces ==
    [][\A d \in Devices :
          (pull(d, "none") /\ result'.ret = "Ok")
              => /\ local_version(local'[d]) = remote_version(remote)
                 /\ local'[d].vault_db = RemoteContent(remote, d)
                 /\ local'[d].backup = local[d].vault_db
                 /\ remote' = remote]_vars

\* a pull returned Ok on a device whose store differed from the remote one:
\* the backup holds the old store, and the version is the remote one
C25_Witness ==
    /\ result = Result("pull", "Ok", None)
    /\ \E d \in Devices :
           /\ local[d].backup /= None
           /\ local[d].backup /= local[d].vault_db
           /\ local_version(local[d]) = remote_version(remote)
           /\ local_version(local[d]) > 1
           /\ from_file(local[d].sync_meta[1]).device_id /= d

\* C26: a push that returns Ok has stored in the container the local store
\* encrypted under the sync key, and one and the same meta, with the previous
\* local version plus one, in the container and in the local directory.
C26_PushVersion ==
    [][\A d \in Devices :
          (push(d, 1, "none") /\ result'.ret = "Ok")
              => /\ remote'.vault_file
                        = Some(Blob(encrypt(local[d].vault_db[1],
                                            from_bytes(encryption_key[d][1]), 1)))
                 /\ local_version(local'[d]) = local_version(local[d]) + 1
                 /\ remote_version(remote') = local_version(local[d]) + 1
                 /\ local'[d].sync_meta = remote'.meta_file
                 /\ local'[d].vault_db = local[d].vault_db]_vars

\* a push returned Ok on a device whose version was below the remote one
C26_Witness ==
    /\ result = Result("push", "Ok", None)
    /\ \E d, e \in Devices :
           /\ local[d].sync_meta = remote.meta_file
           /\ from_file(local[d].sync_meta[1]).device_id = d
           /\ local_version(local[e]) > local_version(local[d])

\* C27: push and pull on a manager that was given no key return the error
\* Other and leave the local files and the container unchanged.
C27_NoKey ==
    [][\A d \in Devices :
          (encryption_key[d] = None /\ (push(d, 1, "none") \/ pull(d, "none")))
              => /\ result'.ret = "Other"
                 /\ UNCHANGED <<local, remote>>]_vars

\* a push or pull was refused for the missing key while the container had a
\* vault to pull
C27_Witness ==
    /\ result.op \in {"push", "pull"}
    /\ result.ret = "Other"
    /\ Val(result) = Some("Encryption key not set")
    /\ remote.vault_file /= None

\* C28: a push or pull that returns an error leaves the local files and the
\* container exactly as they were before the call.
C28_FailedSyncNoChange ==
    [][\A d \in Devices :
          (/\ \/ \E fail \in PushSteps \cup {"none"} : push(d, 1, fail)
              \/ \E fail \in PullSteps \cup {"none"} : pull(d, fail)
           /\ result'.ret /= "Ok")
              => UNCHANGED <<local, remote>>]_vars

\* C29: no call makes the local version of a device or the remote version
\* smaller.
C29_VersionsMonotonic ==
    [][/\ \A d \in Devices : local_version(local'[d]) >= local_version(local[d])
       /\ remote_version(remote') >= remote_version(remote)]_vars

\* C30: when two devices with iCloud and a key have both edited their vaults
\* and one of them has since run sync(), a sync() of the other one pulls and
\* leaves it with the store of the first.
C30_SecondSyncPulls ==
    [][\A d, e \in Devices :
          (/\ h_sync[d] = "synced" /\ h_sync[e] = "edited"
           /\ icloud_path[d] /\ encryption_key[d] /= None
           /\ icloud_path[e] /\ encryption_key[e] /= None
           /\ sync(e, 1, "none"))
              => /\ result' = Result("sync", "Ok", Some("Pulled"))
                 /\ local'[e].vault_db = local[d].vault_db]_vars

\* the blob opens under key k
Authentic(data, k) ==
    decrypt([nonce |-> data.nonce, ciphertext |-> data.ciphertext], k).ok

\* C31: get on an unlocked vault returns a Decryption error and no value when
\* the blob stored at the path is shorter than NONCE_LEN bytes or does not
\* open under the held key, and returns Ok(None) only when no row exists at
\* the path.
C31_GetErrors ==
    [][\A path \in Paths :
          (key /= None /\ get(path, "none"))
              => LET data == store_get(secrets, path) IN
                 /\ (data /= None /\ (data[1].len < NONCE_LEN \/ ~Authentic(data[1], key[1])))
                        => (result'.ret = "Decryption" /\ Val(result') = None)
                 /\ (result'.ret = "Ok" /\ Val(result') = None) => data = None]_vars

\* get on an unlocked vault returned a Decryption error for a row whose blob
\* is shorter than one nonce
C31_Witness ==
    /\ result = Result("get", "Decryption", None)
    /\ key /= None
    /\ store_get(secrets, PathStr(1)) /= None
    /\ store_get(secrets, PathStr(1))[1].len < NONCE_LEN

\* C32: list(Some(pattern)) on an unlocked vault returns exactly the secrets
\* whose full path matches the pattern read as a glob, in which * stands for
\* any run of characters and every other character for itself; list(None)
\* returns every secret; the stored secrets are left unchanged.
C32_ListGlob ==
    [][\A pattern \in Patterns :
          (key /= None /\ list(pattern, "none"))
              => LET RECURSIVE Glob(_, _)
                     Glob(pat, s) ==
                         IF pat = <<>> THEN s = <<>>
                         ELSE IF Head(pat) = Star
                              THEN Glob(Tail(pat), s) \/ (s /= <<>> /\ Glob(pat, Tail(s)))
                              ELSE /\ s /= <<>>
                                   /\ Head(s) = Head(pat)
                                   /\ Glob(Tail(pat), Tail(s))
                     matching == {r \in secrets : pattern = None \/ Glob(pattern[1], r.path)}
                 IN /\ result'.ret = "Ok"
                    /\ Val(result') = Some({SecretInfoOf(r) : r \in matching})
                    /\ secrets' = secrets]_vars

\* the status code claimed for the outcome r of a vault call, where one is
\* claimed: locked, invalid-password, io-error for a storage failure,
\* not-found for a missing secret, ok for success
ClaimedCode(r, code) ==
    /\ r.ret = "VaultLocked" => code = CLAWBOX_ERR_VAULT_LOCKED
    /\ r.ret = "InvalidPassword" => code = CLAWBOX_ERR_INVALID_PASSWORD
    /\ r.ret = "Database" => code = CLAWBOX_ERR_IO
    /\ r.ret = "Ok" =>
           code = IF \/ (r.op = "get" /\ Val(r) = None)
                     \/ (r.op = "delete" /\ Val(r) = Some(FALSE))
                  THEN CLAWBOX_ERR_NOT_FOUND
                  ELSE CLAWBOX_OK

\* C33: the adapter returns the locked code when get, set or delete find the
\* vault locked, the invalid-password code when unlock finds a wrong
\* password, the not-found code when get or delete find no secret, the
\* io-error code when a storage call fails, and ok on success.
C33_StatusCodes ==
    [][/\ \A password \in Passwords, salt \in Salts, nonce \in Nonces,
             fail \in {"none", "salt", "verification_nonce", "verification_data"} :
             init(password, salt, nonce, fail)
                 => ClaimedCode(result', clawbox_init(result'))
       /\ \A password \in Passwords, fail \in {"none", "get_meta"} :
             unlock(password, fail) => ClaimedCode(result', clawbox_unlock(result'))
       /\ \A fail \in {"none", "select"} :
             get(PathStr(1), fail) => ClaimedCode(result', clawbox_get(result'))
       /\ \A value \in Values, nonce \in Nonces, fail \in {"none", "upsert"} :
             set(PathStr(1), value, DefaultOptions, nonce, fail)
                 => ClaimedCode(result', clawbox_set(result'))
       /\ \A fail \in {"none", "delete"} :
             delete(PathStr(1), fail) => ClaimedCode(result', clawbox_delete(result'))
      ]_vars

\* C34: for every password P, salt S and plaintext M, the EncryptedData that
\* encrypt returns for M under derive_key(P, S) decrypts under
\* derive_key(P, S) to M.
C34_RoundTrip ==
    [][\A slot \in KeySlots, password \in Passwords, salt \in Salts :
          caller[slot] = Some(derive_key(password, salt)) =>
              /\ \A plaintext \in Plaintexts, nonce \in Nonces :
                    call_encrypt(slot, plaintext, nonce)
                        => decrypt(caller'.encrypted[1], derive_key(password, salt))
                               = [ok |-> TRUE, plaintext |-> Some(plaintext)]
              /\ (/\ caller.encrypted /= None
                  /\ caller.encrypted[1].ciphertext.key = derive_key(password, salt)
                  /\ call_decrypt(slot))
                     => /\ result'.ret = "Ok"
                        /\ Val(result') = Some(caller.encrypted[1].ciphertext.plaintext)]_vars

\* a decrypt call returned the plaintext of data encrypted under the key in
\* the caller's other slot, derived again from the same password and salt
C34_Witness ==
    /\ result.op = "decrypt" /\ result.ret = "Ok"
    /\ caller.encrypted /= None
    /\ Val(result) = Some(caller.encrypted[1].ciphertext.plaintext)
    /\ Val(result) /= Some(VerificationToken)
    /\ caller.key1 = caller.key2

\* C35: decrypt of data encrypted under the key derived from a password P and
\* a salt S, with the key derived from another password and the same salt,
\* returns a Decryption error and no plaintext.
C35_WrongKey ==
    [][\A slot \in KeySlots, P \in Passwords, Q \in Passwords, salt \in Salts :
          (/\ P /= Q
           /\ caller.encrypted /= None
           /\ caller.encrypted[1].ciphertext.key = derive_key(P, salt)
           /\ caller[slot] = Some(derive_key(Q, salt))
           /\ call_decrypt(slot))
              => result' = Result("decrypt", "Decryption", None)]_vars

\* a decrypt call failed while the caller held the key of the data and a key
\* of another password and the same salt
C35_Witness ==
    /\ result = Result("decrypt", "Decryption", None)
    /\ caller.key1 /= None /\ caller.key2 /= None
    /\ caller.key1[1].password /= caller.key2[1].password
    /\ caller.key1[1].salt = caller.key2[1].salt
    /\ caller.encrypted[1].ciphertext.key \in {caller.key1[1], caller.key2[1]}

\* C36: an unlock call that does not return Ok leaves the key state as it
\* was; on an unlocked vault, unlock with a password other than the one given
\* to init returns InvalidPassword and the vault keeps the key it held.
C36_FailedUnlockKeepsKey ==
    [][/\ \A password \in Passwords, fail \in {"none", "get_meta"} :
             (unlock(password, fail) /\ result'.ret /= "Ok") => key' = key
       /\ \A password \in Passwords :
             (/\ key /= None
              /\ h_password /= None /\ h_password /= Some(password)
              /\ unlock(password, "none"))
                 => (result'.ret = "InvalidPassword" /\ key' = key /\ key' /= None)]_vars

\* unlock with a wrong password failed on an unlocked vault, which still
\* holds the key of the password given to init
C36_Witness ==
    /\ result = Result("unlock", "InvalidPassword", None)
    /\ h_password /= None
    /\ key = Some(derive_key(h_password[1], get_meta(vault_meta, "salt")[1]))

\* C37: whenever the vault is unlocked, the key it holds is derived from the
\* persisted salt and opens the persisted verification record to the token.
C37_KeyMatchesPersisted ==
    key /= None =>
        /\ get_meta(vault_meta, "salt") /= None
        /\ \E password \in Passwords :
               key[1] = derive_key(password, get_meta(vault_meta, "salt")[1])
        /\ VerifiesToken(vault_meta, key[1])

\* C38: whenever both devices are at the version of the container, and that
\* version is one a push has written, the two local stores are the same and
\* are what the container's blob decrypts to.
C38_VersionNamesContent ==
    (/\ remote_version(remote) > 0
     /\ \A d \in Devices : local_version(local[d]) = remote_version(remote))
        => /\ \A d, e \in Devices : local[d].vault_db = local[e].vault_db
           /\ \A d \in Devices : RemoteContent(remote, d) = local[d].vault_db

\* C39: set and delete leave the local sync version as it was; a sync() on a
\* device with iCloud that has edited its vault and whose local version
\* equals the remote one returns UpToDate and changes neither the container
\* nor the local files.
C39_EditsKeepVersion ==
    [][/\ \A d \in Devices, content \in Contents :
             vault_write(d, content)
                 => /\ local_version(local'[d]) = local_version(local[d])
                    /\ local'[d].sync_meta = local[d].sync_meta
                    /\ remote' = remote
       /\ \A d \in Devices :
             (/\ h_sync[d] = "edited"
              /\ icloud_path[d]
              /\ local_version(local[d]) = remote_version(remote)
              /\ sync(d, 1, "none"))
                 => /\ result' = Result("sync", "Ok", Some("UpToDate"))
                    /\ remote' = remote
                    /\ local' = local]_vars

\* a device at the container's version edited its vault and its sync()
\* returned UpToDate: its store is not what the container holds
C39_Witness ==
    /\ result = Result("sync", "Ok", Some("UpToDate"))
    /\ \E d \in Devices :
           /\ h_sync[d] = "synced"
           /\ icloud_path[d]
           /\ encryption_key[d] /= None
           /\ local_version(local[d]) = remote_version(remote)
           /\ remote_version(remote) > 0
           /\ from_file(remote.meta_file[1]).device_id = d
           /\ RemoteContent(remote, d) /= local[d].vault_db

====
